---- MODULE Spec2Model ----
(***************************************************************************)
(* A model of the rule engine of language-alchemist: the grammar-rule      *)
(* pattern system of grammar.rs (find-pattern forest, labels, captures,    *)
(* the save/load bridge) and the syllable grammar of synthesis.rs.         *)
(***************************************************************************)
EXTENDS Integers, Sequences, FiniteSets, TLC

\* ------------------------------------------------------------------ bounds

\* Most find-pattern nodes alive in the rule at one time.
MaxNodes == 3

\* Most entries of the rule's replace-pattern list.
MaxReplace == 2

\* ------------------------------------------------- grammar.rs: the data model

\* Weak::new(): a weak reference that never upgrades.
NoRef == 0

\* Addresses of Rc allocations.
NodeIds == 1..MaxNodes

WordShortName ==
    [Adposition |-> "Adp", Conjunction |-> "Conj", Determiner |-> "Det", Noun |-> "Noun",
     NounModifier |-> "NM", Pronoun |-> "Pro", Verb |-> "Verb", VerbModifier |-> "VM"]

PhraseShortName ==
    [Action |-> "Action", Argument |-> "Arg", Clause |-> "Clause", Relation |-> "Rel"]

Phrase(ty) == [kind |-> "Phrase", name |-> ty]
Word(ty) == [kind |-> "Word", name |-> ty]
Literal(word) == [kind |-> "Literal", name |-> word]

\* The entries of the find-pattern menu the model lets the user click.
PatternChoices == {Word("Noun"), Literal("word")}

\* The texts the user may type into a literal's "Exact Word" field.
LiteralTexts == {"word", "cat"}

FindPatternNew(pattern) ==
    [pattern |-> pattern, multimatch |-> FALSE, optional |-> FALSE,
     children |-> <<>>, label |-> ""]

FindPatternId(node) == <<node.pattern, node.multimatch, node.optional>>

EditModes == {"View", "Edit", "Delete"}

\* serde's Option-less absence: nothing is stored while the application runs.
NoImage == [find_patterns |-> <<>>, replace_patterns |-> <<>>, stored |-> FALSE]

VARIABLES
    heap,               \* address -> FindPattern, for every node with a strong reference
    find_patterns,      \* GrammarRule::find_patterns, a sequence of addresses
    replace_patterns,   \* GrammarRule::replace_patterns
    grammar_edit_mode,  \* GrammarTab::grammar_edit_mode
    storage,            \* what Application::save stored, until the next start reads it
    last,               \* the handler that ran last: a frame drawn (with the number of
                        \* replace entries its retain dropped), a save or a load
    grammar_rules,      \* GrammarTab::grammar_rules, each rule by its identity
    moved_rule          \* the Reordering the frame applied, and the list it was applied to

ruleListVars == <<grammar_rules, moved_rule>>

grammarVars ==
    <<heap, find_patterns, replace_patterns, grammar_edit_mode, storage, last, ruleListVars>>

\* ------------------------------------------------ synthesis.rs: the data model

\* Most initialized leaves in the whole syllable grammar at one time.
MaxLeaves == 2

VARIABLES
    syllable_roots,      \* SyllableVars::roots: initial, middle, terminal, single
    vars,                \* SyllableVars::vars, name -> OrRule
    reachable,           \* SyllableVars::reachable
    syllable_edit_mode,  \* SynthesisTab::syllable_edit_mode
    pruned               \* the names the retain of the last frame removed

syllableVars == <<syllable_roots, vars, reachable, syllable_edit_mode, pruned>>

\* Most syllables a word may be given in the "Max Syllables" fields.
MaxSyllables == 2

VARIABLES
    max_syllables,       \* SynthesisTab::max_syllables: <<function words, content words>>
    syllable_wgts,       \* SynthesisTab::syllable_wgts: <<function words, content words>>
    test_words,          \* SynthesisTab::test_words, as the set of the words in the list
    invoked,             \* the weight vectors the last frame passed to synthesize_morpheme
    input_text,          \* TranslateTab::input_text, character by character
    output_text,         \* TranslateTab::output_text
    lexicon              \* LexiconTab::lexicon, native word -> word of the language

counterVars == <<max_syllables, syllable_wgts>>

sampleVars == <<test_words, invoked, input_text, output_text, lexicon>>

\* The longest history of the grapheme fields the model follows.
MaxEvents == 6

VARIABLES
    sequence,            \* the Vec<Grapheme> of a GraphemeInputField (a Sequence leaf)
    graphemes,           \* the BTreeSet<Grapheme> of a field (the inventory), in its order
    events,              \* what was done to the two: [op, storage, grapheme], oldest first
    input,               \* GraphemeInputField::input of the Sequence leaf, its characters
    last_added,          \* what the last change of the field added, as characters
    aborted              \* the process has panicked

graphemeVars == <<sequence, graphemes, events, input, last_added, aborted>>

\* ------------------------------------------------------- sequence helpers

InsertAt(seq, i, x) == SubSeq(seq, 1, i - 1) \o <<x>> \o SubSeq(seq, i, Len(seq))

RemoveAt(seq, i) == SubSeq(seq, 1, i - 1) \o SubSeq(seq, i + 1, Len(seq))

Range(seq) == {seq[i] : i \in 1..Len(seq)}

RECURSIVE FilterSeq(_, _)
FilterSeq(seq, keep) ==
    IF seq = <<>> THEN <<>>
    ELSE (IF Head(seq) \in keep THEN <<Head(seq)>> ELSE <<>>) \o FilterSeq(Tail(seq), keep)

\* ------------------------------------------------------ traversal and labels

\* Root first, then its direct children.
ForEachInSubtree(h, root) == <<root>> \o h[root].children

RECURSIVE ForEachRoot(_, _)
ForEachRoot(h, roots) ==
    IF roots = <<>> THEN <<>>
    ELSE ForEachInSubtree(h, Head(roots)) \o ForEachRoot(h, Tail(roots))

\* Every node owned by the list `roots`, each before its descendants.
RECURSIVE DepthFirst(_, _)
DepthFirst(h, roots) ==
    IF roots = <<>> THEN <<>>
    ELSE <<Head(roots)>> \o DepthFirst(h, h[Head(roots)].children) \o DepthFirst(h, Tail(roots))

EmptyCounter == [k \in {} |-> <<0, 0>>]

\* The counting pass: entry(id).and_modify(max += 1).or_insert((0, 1)).
RECURSIVE CountPass(_, _, _)
CountPass(h, visited, counter) ==
    IF visited = <<>> THEN counter
    ELSE LET k == FindPatternId(h[Head(visited)])
             next == IF k \in DOMAIN counter
                     THEN [counter EXCEPT ![k] = <<@[1], @[2] + 1>>]
                     ELSE counter @@ (k :> <<0, 1>>)
         IN CountPass(h, Tail(visited), next)

TypeText(pattern) ==
    CASE pattern.kind = "Phrase" -> PhraseShortName[pattern.name]
      [] pattern.kind = "Word" -> WordShortName[pattern.name]
      [] pattern.kind = "Literal" -> "\"" \o pattern.name \o "\""

ModifierText(multimatch, optional) ==
    CASE multimatch /\ optional -> "*"
      [] multimatch /\ ~optional -> "+"
      [] ~multimatch /\ optional -> "?"
      [] ~multimatch /\ ~optional -> ""

\* LabelClear left out: the new label is appended to the stored one.
LabelClearSkipped(label) == label

\* self.label.clear()
LabelClear(label) == ""

\* TakesNumber without the test for more than one use.
TakesNumberAlone(counter, k) ==
    /\ k \in DOMAIN counter
    /\ counter[k][1] < counter[k][2]

\* Whether compute_label numbers a node of identity k, given the counter.
TakesNumber(counter, k) ==
    /\ k \in DOMAIN counter
    /\ counter[k][2] > 1
    /\ counter[k][1] < counter[k][2]

\* compute_label on node n, then on its children; the stores and the counter
\* are threaded through.  Result: [heap, counter].
RECURSIVE ComputeLabel(_, _, _)
RECURSIVE ComputeLabelEach(_, _, _)
ComputeLabel(h, n, counter) ==
    LET node == h[n]
        k == FindPatternId(node)
        base == LabelClear(node.label) \o TypeText(node.pattern)
                    \o ModifierText(node.multimatch, node.optional)
        numbered == TakesNumber(counter, k)
        counter1 == IF numbered THEN [counter EXCEPT ![k] = <<@[1] + 1, @[2]>>] ELSE counter
        label == IF numbered THEN base \o " " \o ToString(counter1[k][1]) ELSE base
    IN ComputeLabelEach([h EXCEPT ![n].label = label], node.children, counter1)

ComputeLabelEach(h, nodes, counter) ==
    IF nodes = <<>> THEN [heap |-> h, counter |-> counter]
    ELSE LET r == ComputeLabel(h, Head(nodes), counter)
         IN ComputeLabelEach(r.heap, Tail(nodes), r.counter)

LabelPass(h, roots) == ComputeLabelEach(h, roots, CountPass(h, ForEachRoot(h, roots), EmptyCounter))

\* The handler ending without its call of recompute_pattern_labels.
RecomputePatternLabelsSkipped(h, roots) == h

RecomputePatternLabels(h, roots) == LabelPass(h, roots).heap

\* ------------------------------------------------ ownership and weak references

\* The node alone, as if its children vector were held by something else too.
SubtreeRootOnly(h, n) == {n}

RECURSIVE Subtree(_, _)
Subtree(h, n) == {n} \cup UNION {Subtree(h, h[n].children[i]) : i \in 1..Len(h[n].children)}

\* DropSubtree when something else still holds the nodes strongly.
DropSubtreeHeld(h, n) == h

\* Dropping the last strong reference to n releases n and, with its children
\* vector, every descendant.
DropSubtree(h, n) == [m \in (DOMAIN h) \ Subtree(h, n) |-> h[m]]

\* The list that holds n: 0 for the rule's own list, else the parent's address.
OwnerOf(h, roots, n) ==
    IF n \in Range(roots) THEN 0
    ELSE CHOOSE p \in DOMAIN h : n \in Range(h[p].children)

\* ReplacePattern::Capture.  Its serde_label is written by save and read by load
\* and by nothing else: the model keeps it in the stored image only.
Capture(target) == [kind |-> "Capture", capture |-> target, text |-> ""]

ReplaceLiteral(text) == [kind |-> "Literal", capture |-> NoRef, text |-> text]

\* Weak::upgrade succeeds while a strong reference exists.
Upgrade(h, ref) == ref \in DOMAIN h

\* is_valid answering true for every entry.
IsValidAlways(h, rp) == TRUE

\* ReplacePattern::is_valid
IsValid(h, rp) == IF rp.kind = "Capture" THEN Upgrade(h, rp.capture) ELSE TRUE

WeakRefs(rps) == {rps[i].capture : i \in 1..Len(rps)} \ {NoRef}

\* Rc::new: an address that no strong or weak reference holds.
HasFreshId(h, rps) == NodeIds \ (DOMAIN h \cup WeakRefs(rps)) # {}

FreshId(h, rps) ==
    CHOOSE i \in NodeIds \ (DOMAIN h \cup WeakRefs(rps)) :
        \A j \in NodeIds \ (DOMAIN h \cup WeakRefs(rps)) : i <= j

\* Addresses carry no meaning of their own: after every handler the nodes are
\* renamed to their depth-first positions, and the captures with them.
Normalize(h, roots, rps) ==
    LET order == DepthFirst(h, roots)
        pos(id) == CHOOSE i \in 1..Len(order) : order[i] = id
    IN [heap |-> [i \in 1..Len(order) |->
                    [h[order[i]] EXCEPT
                        !.children = [j \in 1..Len(h[order[i]].children) |->
                                         pos(h[order[i]].children[j])]]],
        find_patterns |-> [j \in 1..Len(roots) |-> pos(roots[j])],
        replace_patterns |->
            [j \in 1..Len(rps) |->
                IF rps[j].kind = "Capture" /\ rps[j].capture \in Range(order)
                THEN Capture(pos(rps[j].capture))
                ELSE rps[j]]]

\* ------------------------------------------------ util.rs: the reordering

\* The longest list of rules.
MaxRules == 4

\* let mut moved_rule = None
NoReordering == [from_index |-> 0, to_index |-> 0, list |-> <<>>]

\* Vec::remove and Vec::insert take indices counted from 0.
VecRemove(list, index) == RemoveAt(list, index + 1)

VecInsert(list, index, element) == InsertAt(list, index + 1, element)

\* Every item inserted at the front.
InsertionIndexFront(from_index, to_index) == 0

\* let to_index = if self.to_index <= self.from_index { .. } else { .. - 1 }
InsertionIndex(from_index, to_index) ==
    IF to_index <= from_index THEN to_index ELSE to_index - 1

\* Reordering::apply
Apply(from_index, to_index, list) ==
    LET moved_item == list[from_index + 1]
    IN VecInsert(VecRemove(list, from_index),
                 InsertionIndex(from_index, to_index), moved_item)

\* ---------------------------------------------------------------- the editor

GrammarInit ==
    /\ heap = <<>>
    /\ find_patterns = <<>>
    /\ replace_patterns = <<>>
    /\ grammar_edit_mode = "View"
    /\ storage = NoImage
    /\ last = [op |-> "Draw", n |-> 0]
    /\ grammar_rules = <<>>
    /\ moved_rule = NoReordering

Running == ~storage.stored

\* The state a handler leaves, r = [heap, find_patterns, replace_patterns].
Leaves(r) ==
    LET z == Normalize(r.heap, r.find_patterns, r.replace_patterns)
    IN /\ heap' = z.heap
       /\ find_patterns' = z.find_patterns
       /\ replace_patterns' = z.replace_patterns

\* draw_replace_patterns in Delete mode: retain(!should_delete && is_valid()),
\* where `clicked` is the index of the clicked entry (0: none).
RECURSIVE RetainReplace(_, _, _, _)
RetainReplace(h, rps, clicked, i) ==
    IF i > Len(rps) THEN <<>>
    ELSE (IF i # clicked /\ IsValid(h, rps[i]) THEN <<rps[i]>> ELSE <<>>)
            \o RetainReplace(h, rps, clicked, i + 1)

DrawReplacePatternsDelete(h, rps, clicked) == RetainReplace(h, rps, clicked, 1)

\* draw_grammar_tab with a click in the mode picker: the rule is then drawn in
\* the new mode, and drawing the replace patterns in Delete mode retains only the
\* valid ones.
DrawModePicker(m) ==
    /\ Running
    /\ m # grammar_edit_mode
    /\ grammar_edit_mode' = m
    /\ replace_patterns' = IF m = "Delete" /\ find_patterns # <<>>
                           THEN DrawReplacePatternsDelete(heap, replace_patterns, 0)
                           ELSE replace_patterns
    /\ last' = [op |-> "Draw", n |-> 0]
    /\ moved_rule' = NoReordering
    /\ UNCHANGED <<grammar_rules, syllableVars, counterVars, sampleVars, graphemeVars>>
    /\ UNCHANGED <<heap, find_patterns, storage>>

\* draw_rule, no find pattern set yet: the selector pushes the first one.
SelectFirstFind(pattern) ==
    /\ Running /\ grammar_edit_mode = "Edit"
    /\ find_patterns = <<>>
    /\ HasFreshId(heap, replace_patterns)
    /\ LET new == FreshId(heap, replace_patterns)
           h1 == heap @@ (new :> FindPatternNew(pattern))
       IN Leaves([heap |-> RecomputePatternLabels(h1, <<new>>),
                  find_patterns |-> <<new>>,
                  replace_patterns |-> replace_patterns])
    /\ last' = [op |-> "Draw", n |-> 0]
    /\ moved_rule' = NoReordering
    /\ UNCHANGED <<grammar_rules, syllableVars, counterVars, sampleVars, graphemeVars>>
    /\ UNCHANGED <<grammar_edit_mode, storage>>

\* draw_find_patterns in Edit mode: a "+" menu before each node of a drawn list
\* and one after the last.  The list is the rule's own (owner 0) or the
\* non-empty children of a node.
InsertFind(owner, i, pattern) ==
    /\ Running /\ grammar_edit_mode = "Edit"
    /\ find_patterns # <<>>
    /\ Cardinality(DOMAIN heap) < MaxNodes
    /\ HasFreshId(heap, replace_patterns)
    /\ owner = 0 \/ (owner \in DOMAIN heap /\ heap[owner].children # <<>>)
    /\ LET list == IF owner = 0 THEN find_patterns ELSE heap[owner].children
           new == FreshId(heap, replace_patterns)
           h1 == heap @@ (new :> FindPatternNew(pattern))
           roots == IF owner = 0 THEN InsertAt(list, i, new) ELSE find_patterns
           h2 == IF owner = 0 THEN h1
                 ELSE [h1 EXCEPT ![owner].children = InsertAt(list, i, new)]
       IN /\ i \in 1..(Len(list) + 1)
          /\ Leaves([heap |-> RecomputePatternLabels(h2, roots),
                     find_patterns |-> roots,
                     replace_patterns |-> replace_patterns])
    /\ last' = [op |-> "Draw", n |-> 0]
    /\ moved_rule' = NoReordering
    /\ UNCHANGED <<grammar_rules, syllableVars, counterVars, sampleVars, graphemeVars>>
    /\ UNCHANGED <<grammar_edit_mode, storage>>

\* "Add Deep Match..." drawn in the menu of every node.
OffersDeepMatchAlways(node) == TRUE

\* if !matches!(node.pattern, PatternType::Literal(_)): the menu of the node
\* holds "Add Deep Match...".
OffersDeepMatch(node) == node.pattern.kind # "Literal"

\* draw_find_node in Edit mode, "Add Deep Match...": only on a non-literal node.
AddDeepMatch(n, pattern) ==
    /\ Running /\ grammar_edit_mode = "Edit"
    /\ n \in DOMAIN heap
    /\ OffersDeepMatch(heap[n])
    /\ Cardinality(DOMAIN heap) < MaxNodes
    /\ HasFreshId(heap, replace_patterns)
    /\ LET new == FreshId(heap, replace_patterns)
           h1 == heap @@ (new :> FindPatternNew(pattern))
           h2 == [h1 EXCEPT ![n].children = Append(@, new)]
       IN Leaves([heap |-> RecomputePatternLabels(h2, find_patterns),
                  find_patterns |-> find_patterns,
                  replace_patterns |-> replace_patterns])
    /\ last' = [op |-> "Draw", n |-> 0]
    /\ moved_rule' = NoReordering
    /\ UNCHANGED <<grammar_rules, syllableVars, counterVars, sampleVars, graphemeVars>>
    /\ UNCHANGED <<grammar_edit_mode, storage>>

\* draw_find_node in Edit mode: the "Group Matching" checkbox.
ToggleMultimatch(n) ==
    /\ Running /\ grammar_edit_mode = "Edit"
    /\ n \in DOMAIN heap
    /\ heap' = RecomputePatternLabels([heap EXCEPT ![n].multimatch = ~@], find_patterns)
    /\ last' = [op |-> "Draw", n |-> 0]
    /\ moved_rule' = NoReordering
    /\ UNCHANGED <<grammar_rules, syllableVars, counterVars, sampleVars, graphemeVars>>
    /\ UNCHANGED <<find_patterns, replace_patterns, grammar_edit_mode, storage>>

\* draw_find_node in Edit mode: the "Optional Matching" checkbox.
ToggleOptional(n) ==
    /\ Running /\ grammar_edit_mode = "Edit"
    /\ n \in DOMAIN heap
    /\ heap' = RecomputePatternLabels([heap EXCEPT ![n].optional = ~@], find_patterns)
    /\ last' = [op |-> "Draw", n |-> 0]
    /\ moved_rule' = NoReordering
    /\ UNCHANGED <<grammar_rules, syllableVars, counterVars, sampleVars, graphemeVars>>
    /\ UNCHANGED <<find_patterns, replace_patterns, grammar_edit_mode, storage>>

\* draw_find_node in Edit mode: the "Exact Word" text field of a literal.
EditLiteralText(n, text) ==
    /\ Running /\ grammar_edit_mode = "Edit"
    /\ n \in DOMAIN heap
    /\ heap[n].pattern.kind = "Literal"
    /\ heap[n].pattern.name # text
    /\ heap' = RecomputePatternLabels([heap EXCEPT ![n].pattern = Literal(text)], find_patterns)
    /\ last' = [op |-> "Draw", n |-> 0]
    /\ moved_rule' = NoReordering
    /\ UNCHANGED <<grammar_rules, syllableVars, counterVars, sampleVars, graphemeVars>>
    /\ UNCHANGED <<find_patterns, replace_patterns, grammar_edit_mode, storage>>

\* draw_find_patterns in Delete mode with the click on node n: retain() drops
\* n from the list that owns it.  Result: [heap, find_patterns].
RetainFind(h, roots, n) ==
    LET owner == OwnerOf(h, roots, n)
        dropped == DropSubtree(h, n)
    IN [find_patterns |-> IF owner = 0 THEN FilterSeq(roots, Range(roots) \ {n}) ELSE roots,
        heap |-> IF owner = 0 THEN dropped
                 ELSE [dropped EXCEPT ![owner].children = FilterSeq(@, Range(@) \ {n})]]

\* One frame of draw_rule in Delete mode with a click on find node n: the node
\* is removed, the labels are recomputed, then the replace patterns are drawn.
DeleteFindNode(n) ==
    /\ Running /\ grammar_edit_mode = "Delete"
    /\ n \in DOMAIN heap
    /\ LET r == RetainFind(heap, find_patterns, n)
           h2 == RecomputePatternLabels(r.heap, r.find_patterns)
           rps == DrawReplacePatternsDelete(h2, replace_patterns, 0)
       IN /\ Leaves([heap |-> h2, find_patterns |-> r.find_patterns, replace_patterns |-> rps])
          /\ last' = [op |-> "Draw", n |-> Len(replace_patterns) - Len(rps)]
          /\ moved_rule' = NoReordering
    /\ UNCHANGED <<grammar_rules, syllableVars, counterVars, sampleVars, graphemeVars>>
    /\ UNCHANGED <<grammar_edit_mode, storage>>

\* One frame of draw_rule in Delete mode with a click on replace entry i.
DeleteReplaceNode(i) ==
    /\ Running /\ grammar_edit_mode = "Delete"
    /\ find_patterns # <<>>
    /\ i \in 1..Len(replace_patterns)
    /\ replace_patterns' = DrawReplacePatternsDelete(heap, replace_patterns, i)
    /\ last' = [op |-> "Draw", n |-> 0]
    /\ moved_rule' = NoReordering
    /\ UNCHANGED <<grammar_rules, syllableVars, counterVars, sampleVars, graphemeVars>>
    /\ UNCHANGED <<heap, find_patterns, grammar_edit_mode, storage>>

\* draw_replace_pattern_menu: one button per node for_each_in_subtree visits
\* under each root, then "Exact Word".
ReplaceMenu(h, roots) ==
    {Capture(n) : n \in Range(ForEachRoot(h, roots))} \cup {ReplaceLiteral("word")}

\* draw_rule with an empty replace list: the selector pushes the first entry.
SelectFirstReplace(new) ==
    /\ Running /\ grammar_edit_mode = "Edit"
    /\ find_patterns # <<>>
    /\ replace_patterns = <<>>
    /\ new \in ReplaceMenu(heap, find_patterns)
    /\ replace_patterns' = <<new>>
    /\ last' = [op |-> "Draw", n |-> 0]
    /\ moved_rule' = NoReordering
    /\ UNCHANGED <<grammar_rules, syllableVars, counterVars, sampleVars, graphemeVars>>
    /\ UNCHANGED <<heap, find_patterns, grammar_edit_mode, storage>>

\* draw_replace_patterns in Edit mode: a "+" menu before each entry and after the last.
InsertReplace(i, new) ==
    /\ Running /\ grammar_edit_mode = "Edit"
    /\ find_patterns # <<>>
    /\ replace_patterns # <<>>
    /\ Len(replace_patterns) < MaxReplace
    /\ i \in 1..(Len(replace_patterns) + 1)
    /\ new \in ReplaceMenu(heap, find_patterns)
    /\ replace_patterns' = InsertAt(replace_patterns, i, new)
    /\ last' = [op |-> "Draw", n |-> 0]
    /\ moved_rule' = NoReordering
    /\ UNCHANGED <<grammar_rules, syllableVars, counterVars, sampleVars, graphemeVars>>
    /\ UNCHANGED <<heap, find_patterns, grammar_edit_mode, storage>>

\* ------------------------------------------------------------ save and load

\* The serde_label save writes into each capture.
SaveGrammarSerdeMetadata(h, rps) ==
    [i \in 1..Len(rps) |->
        IF rps[i].kind = "Capture"
        THEN [rps[i] EXCEPT !.text = IF Upgrade(h, rps[i].capture)
                                      THEN h[rps[i].capture].label ELSE ""]
        ELSE rps[i]]

\* What serde writes for a find pattern: every field, the children by value.
RECURSIVE SerializeFind(_, _)
SerializeFind(h, n) ==
    [pattern |-> h[n].pattern, multimatch |-> h[n].multimatch, optional |-> h[n].optional,
     label |-> h[n].label,
     children |-> [i \in 1..Len(h[n].children) |-> SerializeFind(h, h[n].children[i])]]

\* What serde writes for a replace pattern: `capture` is #[serde(skip)].
SerializeReplace(rp) == [kind |-> rp.kind, text |-> rp.text]

SerializeRule(h, roots, rps) ==
    [find_patterns |-> [i \in 1..Len(roots) |-> SerializeFind(h, roots[i])],
     replace_patterns |-> [i \in 1..Len(rps) |-> SerializeReplace(rps[i])],
     stored |-> TRUE]

\* Deserialising allocates every node anew, in document order from address `next`.
\* Result: [ids, heap, next].
RECURSIVE DeserializeFind(_, _, _)
DeserializeFind(trees, h, next) ==
    IF trees = <<>> THEN [ids |-> <<>>, heap |-> h, next |-> next]
    ELSE LET t == Head(trees)
             kids == DeserializeFind(t.children, h, next + 1)
             node == [pattern |-> t.pattern, multimatch |-> t.multimatch,
                      optional |-> t.optional, children |-> kids.ids, label |-> t.label]
             rest == DeserializeFind(Tail(trees), kids.heap @@ (next :> node), kids.next)
         IN [ids |-> <<next>> \o rest.ids, heap |-> rest.heap, next |-> rest.next]

\* A skipped field is filled with its Default: Weak::new().
DeserializeReplace(e) == [kind |-> e.kind, capture |-> NoRef, text |-> e.text]

DeserializeRule(image) ==
    LET f == DeserializeFind(image.find_patterns, <<>>, 1)
    IN [heap |-> f.heap, find_patterns |-> f.ids,
        replace_patterns |->
            [i \in 1..Len(image.replace_patterns) |-> DeserializeReplace(image.replace_patterns[i])]]

\* The label map load builds: collect() over the rule's find_patterns, a later
\* entry with the same key replacing an earlier one.
FindPatternLabels(h, roots) ==
    LET keys == {h[roots[i]].label : i \in 1..Len(roots)}
    IN [l \in keys |->
           roots[CHOOSE i \in 1..Len(roots) :
                    /\ h[roots[i]].label = l
                    /\ \A j \in 1..Len(roots) : h[roots[j]].label = l => j <= i]]

\* One capture resolved through the label map.
ResolveCapture(find_pattern_labels, rp) ==
    IF rp.text \in DOMAIN find_pattern_labels
    THEN Capture(find_pattern_labels[rp.text])
    ELSE Capture(NoRef)

\* LoadGrammarSerdeMetadata giving up at the first label it cannot find.
LoadGrammarSerdeMetadataUntilMiss(h, roots, rps) ==
    LET find_pattern_labels == FindPatternLabels(h, roots)
        missed(i) == \E j \in 1..i :
                        rps[j].kind = "Capture" /\ rps[j].text \notin DOMAIN find_pattern_labels
    IN [i \in 1..Len(rps) |->
           IF rps[i].kind = "Capture" /\ ~missed(i)
           THEN ResolveCapture(find_pattern_labels, rps[i])
           ELSE IF rps[i].kind = "Capture" THEN Capture(NoRef) ELSE rps[i]]

LoadGrammarSerdeMetadata(h, roots, rps) ==
    LET find_pattern_labels == FindPatternLabels(h, roots)
    IN [i \in 1..Len(rps) |->
           IF rps[i].kind = "Capture" THEN ResolveCapture(find_pattern_labels, rps[i])
           ELSE rps[i]]

\* Application::save as the application closes: the labels are written into the
\* captures and the rule is serialised.  (The periodic save does the same and
\* leaves nothing behind that anything but the next start reads.)
Save ==
    /\ Running
    /\ storage' = SerializeRule(heap, find_patterns,
                                SaveGrammarSerdeMetadata(heap, replace_patterns))
    /\ last' = [op |-> "Save", n |-> 0]
    /\ moved_rule' = NoReordering
    /\ UNCHANGED <<grammar_rules, syllableVars, counterVars, sampleVars, graphemeVars>>
    /\ UNCHANGED <<heap, find_patterns, replace_patterns, grammar_edit_mode>>

\* Application::new on the next start: deserialise what save stored, then
\* load_grammar_serde_metadata.
Load ==
    /\ ~Running
    /\ LET d == DeserializeRule(storage)
       IN /\ Leaves([heap |-> d.heap, find_patterns |-> d.find_patterns,
                     replace_patterns |->
                        LoadGrammarSerdeMetadata(d.heap, d.find_patterns, d.replace_patterns)])
          /\ last' = [op |-> "Load",
                      n |-> Cardinality({i \in 1..Len(storage.replace_patterns) :
                              /\ storage.replace_patterns[i].kind = "Capture"
                              /\ storage.replace_patterns[i].text \notin
                                     {d.heap[k].label : k \in DOMAIN d.heap}})]
    /\ grammar_edit_mode' = "View"
    /\ storage' = NoImage
    /\ moved_rule' = NoReordering
    /\ UNCHANGED <<grammar_rules, syllableVars, counterVars, sampleVars, graphemeVars>>

\* draw_grammar_tab in Edit mode with the rule at from_index dragged and
\* released over the rule at to_index, or over the space before "Add Rule"
\* (to_index = len).
ApplyReordering(from_index, to_index) ==
    /\ Running /\ grammar_edit_mode = "Edit"
    /\ from_index < Len(grammar_rules)
    /\ to_index <= Len(grammar_rules)
    /\ grammar_rules' = Apply(from_index, to_index, grammar_rules)
    /\ moved_rule' = [from_index |-> from_index, to_index |-> to_index,
                      list |-> grammar_rules]
    /\ last' = [op |-> "Draw", n |-> 0]
    /\ UNCHANGED <<heap, find_patterns, replace_patterns, grammar_edit_mode, storage>>
    /\ UNCHANGED <<syllableVars, counterVars, sampleVars, graphemeVars>>

\* draw_grammar_tab in Edit mode with a click on "Add Rule".
AddRule ==
    /\ Running /\ grammar_edit_mode = "Edit"
    /\ Len(grammar_rules) < MaxRules
    /\ grammar_rules' = Append(grammar_rules,
                               CHOOSE r \in 1..MaxRules :
                                  /\ r \notin Range(grammar_rules)
                                  /\ \A q \in 1..(r - 1) : q \in Range(grammar_rules))
    /\ last' = [op |-> "Draw", n |-> 0]
    /\ UNCHANGED <<heap, find_patterns, replace_patterns, grammar_edit_mode, storage>>
    /\ moved_rule' = NoReordering
    /\ UNCHANGED <<syllableVars, counterVars, sampleVars, graphemeVars>>

\* draw_grammar_tab in Delete mode with a click on the number of rule index.
RemoveRule(index) ==
    /\ Running /\ grammar_edit_mode = "Delete"
    /\ index < Len(grammar_rules)
    /\ grammar_rules' = VecRemove(grammar_rules, index)
    /\ last' = [op |-> "Draw", n |-> 0]
    /\ UNCHANGED <<heap, find_patterns, replace_patterns, grammar_edit_mode, storage>>
    /\ moved_rule' = NoReordering
    /\ UNCHANGED <<syllableVars, counterVars, sampleVars, graphemeVars>>

ReorderNext ==
    \/ \E m \in EditModes : DrawModePicker(m)
    \/ \E from_index \in 0..(MaxRules - 1), to_index \in 0..MaxRules :
          ApplyReordering(from_index, to_index)
    \/ AddRule
    \/ \E index \in 0..(MaxRules - 1) : RemoveRule(index)

FindNext ==
    \/ \E m \in EditModes : DrawModePicker(m)
    \/ \E p \in PatternChoices : SelectFirstFind(p)
    \/ \E owner \in {0} \cup NodeIds, i \in 1..(MaxNodes + 1), p \in PatternChoices :
          InsertFind(owner, i, p)
    \/ \E n \in NodeIds, p \in PatternChoices : AddDeepMatch(n, p)
    \/ \E n \in NodeIds : ToggleMultimatch(n)
    \/ \E n \in NodeIds : ToggleOptional(n)
    \/ \E n \in NodeIds, t \in LiteralTexts : EditLiteralText(n, t)
    \/ \E n \in NodeIds : DeleteFindNode(n)

ReplaceNext ==
    \/ \E i \in 1..MaxReplace : DeleteReplaceNode(i)
    \/ \E new \in ReplaceMenu(heap, find_patterns) : SelectFirstReplace(new)
    \/ \E i \in 1..(MaxReplace + 1), new \in ReplaceMenu(heap, find_patterns) :
          InsertReplace(i, new)
    \/ Save
    \/ Load

\* ============================================ synthesis.rs: the word lengths

\* int_field_percent lets a weight be dragged to any of 0..=100; the model's
\* user leaves one of these.
WeightChoices == {0, 50, 100}

RECURSIVE SumOf(_)
SumOf(weights) == IF weights = <<>> THEN 0 ELSE Head(weights) + SumOf(Tail(weights))

\* The sum kept in eight bits.
SumU8(weights) == SumOf(weights) % 256

\* weights.iter().sum::<u16>()
SumU16(weights) == SumOf(weights) % 65536

\* verify_weights accepting every sum of at least 100.
VerifyWeightsAtLeast(weights) == SumU16(weights) >= 100

VerifyWeights(weights) == SumU16(weights) = 100

IsConfigValid(wgts) == VerifyWeights(wgts[1]) /\ VerifyWeights(wgts[2])

\* int_field_1_to_100: a DragValue writes back the value clamped to 1..=100
\* whenever it is shown.
ClampMax(value) == IF value < 1 THEN 1 ELSE IF value > 100 THEN 100 ELSE value

\* Vec::resize(new_len, 0)
Resize(weights, len) ==
    [i \in 1..len |-> IF i <= Len(weights) THEN weights[i] ELSE 0]

\* draw_syllable_counter without a drag: both maxima are clamped and both weight
\* lists resized to them.
CounterShown(max, wgts) ==
    LET m == <<ClampMax(max[1]), ClampMax(max[2])>>
    IN [max_syllables |-> m,
        syllable_wgts |-> <<Resize(wgts[1], m[1]), Resize(wgts[2], m[2])>>]

CounterRedrawn ==
    /\ max_syllables' = CounterShown(max_syllables, syllable_wgts).max_syllables
    /\ syllable_wgts' = CounterShown(max_syllables, syllable_wgts).syllable_wgts

\* Language::new: every field at its default.
SampleInit ==
    /\ max_syllables = <<0, 0>>
    /\ syllable_wgts = <<<<>>, <<>>>>
    /\ test_words = {}
    /\ invoked = {}
    /\ input_text = <<>>
    /\ output_text = ""
    /\ lexicon = <<>>

\* =================================================== synthesis.rs: the editor

\* SyllableRoots::names
RootNames == <<"InitialSyllable", "MiddleSyllable", "TerminalSyllable", "SingleSyllable">>

\* A LeafRule.  `name` is the text of a Variable, `items` the graphemes of a
\* Sequence or a Set.
LeafUninitialized == [kind |-> "Uninitialized", name |-> "", items |-> <<>>]
LeafSequence == [kind |-> "Sequence", name |-> "", items |-> <<>>]
LeafSet == [kind |-> "Set", name |-> "", items |-> <<>>]
LeafVariable == [kind |-> "Variable", name |-> "", items |-> <<>>]
LeafBlank == [kind |-> "Blank", name |-> "", items |-> <<>>]

Variable(name) == [kind |-> "Variable", name |-> name, items |-> <<>>]

Initialized(leaf) == leaf.kind # "Uninitialized"

\* The entries of LeafRule::menu the model lets the user click.
LeafChoices == {LeafSequence, LeafVariable}

\* What the user may leave in a Variable's text field, character by character.
TypedTexts == {<<>>, <<"X">>, <<"Y">>, <<" ", "X">>, <<"SingleSyllable">>}

\* NonEmptyList as a sequence: the head is element 1, the tail the rest.
\* OrRule::default(): one AndRule holding one Uninitialized leaf.
OrRuleDefault == <<<<LeafUninitialized>>>>

RootsDefault ==
    [initial |-> OrRuleDefault, middle |-> OrRuleDefault,
     terminal |-> OrRuleDefault, single |-> OrRuleDefault]

\* SyllableRoots::iter
RootsIter(r) == <<r.initial, r.middle, r.terminal, r.single>>

RootField(name) ==
    CASE name = "InitialSyllable" -> "initial"
      [] name = "MiddleSyllable" -> "middle"
      [] name = "TerminalSyllable" -> "terminal"
      [] name = "SingleSyllable" -> "single"

IsRootName(name) == \E i \in 1..Len(RootNames) : RootNames[i] = name

\* next.iter().flat_map(NonEmptyList::iter): the leaves of an OrRule in order.
RECURSIVE FlatLeaves(_)
FlatLeaves(rule) == IF rule = <<>> THEN <<>> ELSE Head(rule) \o FlatLeaves(Tail(rule))

\* The loop body without the push of the named rule: only the names in the rule
\* at hand are flagged.
RECURSIVE VisitLeavesNoPush(_, _, _, _)
VisitLeavesNoPush(leaves, reach, stack, map) ==
    IF leaves = <<>> THEN [reachable |-> reach, stack |-> stack]
    ELSE LET leaf == Head(leaves)
             reach1 == IF leaf.kind = "Variable" THEN reach \cup {leaf.name} ELSE reach
         IN VisitLeavesNoPush(Tail(leaves), reach1, stack, map)

\* The loop body pushing the rule of every Variable it meets, flagged or not.
RECURSIVE VisitLeavesPushAll(_, _, _, _)
VisitLeavesPushAll(leaves, reach, stack, map) ==
    IF leaves = <<>> THEN [reachable |-> reach, stack |-> stack]
    ELSE LET leaf == Head(leaves)
             is_var == leaf.kind = "Variable"
             reach1 == IF is_var THEN reach \cup {leaf.name} ELSE reach
             stack1 == IF is_var /\ leaf.name \in DOMAIN map
                       THEN Append(stack, map[leaf.name]) ELSE stack
         IN VisitLeavesPushAll(Tail(leaves), reach1, stack1, map)

\* The body of the loop of flag_reachable_vars over the leaves of one rule: a
\* Variable whose name is new to the set is inserted, and its rule, if the map
\* has one, is pushed.  Result: [reachable, stack].
RECURSIVE VisitLeaves(_, _, _, _)
VisitLeaves(leaves, reach, stack, map) ==
    IF leaves = <<>> THEN [reachable |-> reach, stack |-> stack]
    ELSE LET leaf == Head(leaves)
             fresh == leaf.kind = "Variable" /\ leaf.name \notin reach
             reach1 == IF fresh THEN reach \cup {leaf.name} ELSE reach
             stack1 == IF fresh /\ leaf.name \in DOMAIN map
                       THEN Append(stack, map[leaf.name]) ELSE stack
         IN VisitLeaves(Tail(leaves), reach1, stack1, map)

\* while let Some(next) = stack.pop_back().  `back` is TRUE in the code; FALSE
\* takes the pending rules from the front instead.
RECURSIVE FlagLoop(_, _, _, _)
FlagLoop(stack, reach, map, back) ==
    IF stack = <<>> THEN reach
    ELSE LET next == IF back THEN stack[Len(stack)] ELSE Head(stack)
             rest == IF back THEN SubSeq(stack, 1, Len(stack) - 1) ELSE Tail(stack)
             r == VisitLeaves(FlatLeaves(next), reach, rest, map)
         IN FlagLoop(r.stack, r.reachable, map, back)

FlagReachableVars(r, map) == FlagLoop(RootsIter(r), {}, map, TRUE)

\* The iterations of the loop of flag_reachable_vars the model follows.
LoopLimit == 12

\* The loop of flag_reachable_vars followed for at most LoopLimit iterations:
\* the flags, the rules pushed in the order of their push, the iterations
\* made, and whether the stack ran empty.
RECURSIVE FlagRun(_, _, _, _, _)
FlagRun(stack, reach, map, pushes, iterations) ==
    IF stack = <<>> \/ iterations >= LoopLimit
    THEN [reachable |-> reach, pushes |-> pushes, iterations |-> iterations,
          finished |-> stack = <<>>]
    ELSE LET next == stack[Len(stack)]
             rest == SubSeq(stack, 1, Len(stack) - 1)
             r == VisitLeaves(FlatLeaves(next), reach, rest, map)
         IN FlagRun(r.stack, r.reachable, map,
                    pushes \o SubSeq(r.stack, Len(rest) + 1, Len(r.stack)), iterations + 1)

\* The retain keeping the flagged names only.
RetainVarsFlaggedOnly(map, reach) == [v \in DOMAIN map \cap reach |-> map[v]]

\* vars.retain(|var, rule| reachable.contains(var) || rule.head.head.initialized())
RetainVars(map, reach) ==
    [v \in {w \in DOMAIN map : w \in reach \/ Initialized(map[w][1][1])} |-> map[v]]

\* input.retain(|c| !c.is_whitespace())
RECURSIVE RetainNonWhitespace(_)
RetainNonWhitespace(text) ==
    IF text = <<>> THEN <<>>
    ELSE (IF Head(text) = " " THEN <<>> ELSE <<Head(text)>>) \o RetainNonWhitespace(Tail(text))

RECURSIVE TextOf(_)
TextOf(chars) == IF chars = <<>> THEN "" ELSE Head(chars) \o TextOf(Tail(chars))

\* The rules the frame draws: the four syllable_roots, then the map's.
RuleKeys(map) == Range(RootNames) \cup DOMAIN map

RuleAt(r, map, key) == IF IsRootName(key) THEN r[RootField(key)] ELSE map[key]

RECURSIVE CountLeaves(_)
CountLeaves(leaves) ==
    IF leaves = <<>> THEN 0
    ELSE (IF Initialized(Head(leaves)) THEN 1 ELSE 0) + CountLeaves(Tail(leaves))

RECURSIVE CountMapLeaves(_, _)
CountMapLeaves(map, keys) ==
    IF keys = {} THEN 0
    ELSE LET k == CHOOSE k \in keys : TRUE
         IN CountLeaves(FlatLeaves(map[k])) + CountMapLeaves(map, keys \ {k})

InitializedLeaves(r, map) ==
    CountLeaves(FlatLeaves(RootsIter(r)[1])) + CountLeaves(FlatLeaves(RootsIter(r)[2]))
        + CountLeaves(FlatLeaves(RootsIter(r)[3])) + CountLeaves(FlatLeaves(RootsIter(r)[4]))
        + CountMapLeaves(map, DOMAIN map)

SyllableInit ==
    /\ syllable_roots = RootsDefault
    /\ vars = <<>>
    /\ reachable = {}
    /\ syllable_edit_mode = "View"
    /\ pruned = {}

\* The name typed inserted whatever it is, over the entry it may have.
AddNewVarAlways(map, new_var) == [v \in new_var |-> OrRuleDefault] @@ map

\* if SyllableRoots::names().all(|s| *s != new_var) {
\*     vars.entry(new_var).or_insert_with(Default::default) }
\* for the name typed in the frame (new_var, a set of at most one name).
AddNewVar(map, new_var) ==
    LET added == {v \in new_var : ~IsRootName(v) /\ v \notin DOMAIN map}
    IN map @@ [v \in added |-> OrRuleDefault]

\* One frame of draw_syllable_rules: flag_reachable_vars and the retain come
\* first; then the rules are drawn and the click, if the retain left its rule
\* `key`, makes that rule `rule`; last, a variable name typed in this frame
\* (new_var, a set of at most one name) gets its entry.
SyllableFrame(key, rule, new_var) ==
    LET reach == FlagReachableVars(syllable_roots, vars)
        kept == RetainVars(vars, reach)
    IN /\ key \in RuleKeys(kept)
       /\ LET map1 == IF IsRootName(key) THEN kept ELSE [kept EXCEPT ![key] = rule]
          IN /\ syllable_roots' = IF IsRootName(key)
                                  THEN [syllable_roots EXCEPT ![RootField(key)] = rule]
                                  ELSE syllable_roots
             /\ vars' = AddNewVar(map1, new_var)
       /\ reachable' = reach
       /\ pruned' = DOMAIN vars \ DOMAIN kept
       /\ UNCHANGED syllable_edit_mode
       /\ CounterRedrawn
       /\ UNCHANGED <<grammarVars, sampleVars, graphemeVars>>

UnderBudget ==
    InitializedLeaves(syllable_roots,
                      RetainVars(vars, FlagReachableVars(syllable_roots, vars))) < MaxLeaves

\* draw_syllable_rules with a click in the mode picker: the flags and the retain
\* run in the same frame.
SyllableModePicker(m) ==
    LET reach == FlagReachableVars(syllable_roots, vars)
    IN /\ m # syllable_edit_mode
       /\ syllable_edit_mode' = m
       /\ reachable' = reach
       /\ vars' = RetainVars(vars, reach)
       /\ pruned' = DOMAIN vars \ DOMAIN vars'
       /\ UNCHANGED syllable_roots
       /\ CounterRedrawn
       /\ UNCHANGED <<grammarVars, sampleVars, graphemeVars>>

\* A frame without a click: the flags and the retain still run.
SyllableDrawFrame ==
    LET reach == FlagReachableVars(syllable_roots, vars)
    IN /\ reachable' = reach
       /\ vars' = RetainVars(vars, reach)
       /\ pruned' = DOMAIN vars \ DOMAIN vars'
       /\ CounterRedrawn
       /\ <<reachable', vars', pruned', max_syllables', syllable_wgts'>>
             # <<reachable, vars, pruned, max_syllables, syllable_wgts>>
       /\ UNCHANGED <<syllable_roots, syllable_edit_mode>>
       /\ UNCHANGED <<grammarVars, sampleVars, graphemeVars>>

\* draw_leaf_node on an Uninitialized leaf in Edit mode: "(click to set)".
SetLeaf(key, a, l, new) ==
    LET rule == RuleAt(syllable_roots, vars, key)
    IN /\ syllable_edit_mode = "Edit"
       /\ UnderBudget
       /\ ~Initialized(rule[a][l])
       /\ SyllableFrame(key, [rule EXCEPT ![a][l] = new], {})

\* draw_and_node in Edit mode: the "+" before the first leaf (p = 1, prepend),
\* before a later leaf (tail.insert) or after the last (p = len + 1, tail.push).
\* The first and the last are drawn only when the head is initialized.
InsertLeaf(key, a, p, new) ==
    LET rule == RuleAt(syllable_roots, vars, key)
    IN /\ syllable_edit_mode = "Edit"
       /\ UnderBudget
       /\ (p = 1 \/ p = Len(rule[a]) + 1) => Initialized(rule[a][1])
       /\ SyllableFrame(key, [rule EXCEPT ![a] = InsertAt(@, p, new)], {})

\* draw_or_node in Edit mode: "OR..." pushes a new alternative.
AddAlternative(key, new) ==
    LET rule == RuleAt(syllable_roots, vars, key)
    IN /\ syllable_edit_mode = "Edit"
       /\ UnderBudget
       /\ Initialized(rule[1][1])
       /\ SyllableFrame(key, Append(rule, <<new>>), {})

\* draw_leaf_node on a Variable in Edit mode: the text field changed to `text`.
\* A text that is not empty loses its whitespace and is reported as new_var.
TypeVariable(key, a, l, text) ==
    LET rule == RuleAt(syllable_roots, vars, key)
        name == IF text # <<>> THEN TextOf(RetainNonWhitespace(text)) ELSE ""
    IN /\ syllable_edit_mode = "Edit"
       /\ rule[a][l].kind = "Variable"
       /\ rule[a][l].name # TextOf(text)
       /\ SyllableFrame(key, [rule EXCEPT ![a][l] = Variable(name)],
                        IF text # <<>> THEN {name} ELSE {})

\* A click in Delete mode that resets the clicked leaf where it stands.
DeleteLeafInPlace(rule, a, l) == [rule EXCEPT ![a][l] = LeafUninitialized]

\* What a click on leaf l of alternative a does in Delete mode: a later leaf is
\* dropped; the first leaf is replaced by the next one; an alternative whose only
\* leaf goes is dropped, the first alternative being reset instead.
DeleteLeafIn(rule, a, l) ==
    IF Len(rule[a]) > 1 THEN [rule EXCEPT ![a] = RemoveAt(@, l)]
    ELSE IF a = 1 THEN [rule EXCEPT ![1][1] = LeafUninitialized]
    ELSE RemoveAt(rule, a)

DeleteLeaf(key, a, l) ==
    LET rule == RuleAt(syllable_roots, vars, key)
    IN /\ syllable_edit_mode = "Delete"
       /\ Initialized(rule[a][l])
       /\ SyllableFrame(key, DeleteLeafIn(rule, a, l), {})

\* The root rules the model lets the user edit; the other two keep their default.
EditedRoots == {"InitialSyllable", "SingleSyllable"}

SyllableKeys == EditedRoots \cup DOMAIN vars

LeafPositions(key) ==
    LET rule == RuleAt(syllable_roots, vars, key)
    IN {pos \in (1..Len(rule)) \X (1..MaxLeaves) : pos[2] <= Len(rule[pos[1]])}

GapPositions(key) ==
    LET rule == RuleAt(syllable_roots, vars, key)
    IN {pos \in (1..Len(rule)) \X (1..(MaxLeaves + 1)) : pos[2] <= Len(rule[pos[1]]) + 1}

SyllableNext ==
    \/ \E m \in EditModes : SyllableModePicker(m)
    \/ SyllableDrawFrame
    \/ \E key \in SyllableKeys, new \in LeafChoices :
          \E pos \in LeafPositions(key) : SetLeaf(key, pos[1], pos[2], new)
    \/ \E key \in SyllableKeys, new \in LeafChoices :
          \E pos \in GapPositions(key) : InsertLeaf(key, pos[1], pos[2], new)
    \/ \E key \in SyllableKeys, new \in LeafChoices : AddAlternative(key, new)
    \/ \E key \in SyllableKeys, text \in TypedTexts :
          \E pos \in LeafPositions(key) : TypeVariable(key, pos[1], pos[2], text)
    \/ \E key \in SyllableKeys :
          \E pos \in LeafPositions(key) : DeleteLeaf(key, pos[1], pos[2])

\* ================================================ grapheme.rs: grapheme fields

\* The graphemes the user types, in the order of Ord for Grapheme (str order).
GraphemeOrder == <<"a", "sh">>

Rank(grapheme) == CHOOSE i \in 1..Len(GraphemeOrder) : GraphemeOrder[i] = grapheme

\* <Vec<Grapheme> as GraphemeStorage>::add
VecAdd(list, grapheme) == Append(list, grapheme)

\* <Vec<Grapheme> as GraphemeStorage>::contains
VecContains(list, grapheme) == \E i \in 1..Len(list) : list[i] = grapheme

\* BTreeSet::insert keeping a second copy of a grapheme it holds.
BTreeSetAddAgain(set, grapheme) ==
    LET before == Cardinality({i \in 1..Len(set) : Rank(set[i]) <= Rank(grapheme)})
    IN InsertAt(set, before + 1, grapheme)

\* <BTreeSet<Grapheme> as GraphemeStorage>::add: BTreeSet::insert leaves the
\* set as it is when it holds an equal grapheme.
BTreeSetAdd(set, grapheme) ==
    IF \E i \in 1..Len(set) : set[i] = grapheme THEN set
    ELSE LET before == Cardinality({i \in 1..Len(set) : Rank(set[i]) < Rank(grapheme)})
         IN InsertAt(set, before + 1, grapheme)

\* <BTreeSet<Grapheme> as GraphemeStorage>::contains
BTreeSetContains(set, grapheme) == \E i \in 1..Len(set) : set[i] = grapheme

\* GraphemeStorage::update of either storage with the closure of show_contents:
\* retain every grapheme but the one whose button was clicked.
Update(container, clicked) == RemoveAt(container, clicked)

GraphemeInit ==
    /\ sequence = <<>>
    /\ graphemes = <<>>
    /\ events = <<>>
    /\ input = <<>>
    /\ last_added = <<>>
    /\ aborted = FALSE

\* show_input of the field of a Sequence leaf: a grapheme typed and entered.
SequenceAdd(grapheme) ==
    /\ Len(events) < MaxEvents
    /\ sequence' = VecAdd(sequence, grapheme)
    /\ events' = Append(events, [op |-> "add", storage |-> "Vec", grapheme |-> grapheme])
    /\ UNCHANGED <<graphemes, input, last_added, aborted>>
    /\ UNCHANGED <<grammarVars, syllableVars, counterVars, sampleVars>>

\* show_contents of the field of a Sequence leaf with a click on button i.
SequenceRemove(i) ==
    /\ Len(events) < MaxEvents
    /\ i \in 1..Len(sequence)
    /\ sequence' = Update(sequence, i)
    /\ events' = Append(events, [op |-> "remove", storage |-> "Vec", grapheme |-> sequence[i]])
    /\ UNCHANGED <<graphemes, input, last_added, aborted>>
    /\ UNCHANGED <<grammarVars, syllableVars, counterVars, sampleVars>>

\* show_input of the field of the inventory.
InventoryAdd(grapheme) ==
    /\ Len(events) < MaxEvents
    /\ graphemes' = BTreeSetAdd(graphemes, grapheme)
    /\ events' = Append(events, [op |-> "add", storage |-> "BTreeSet", grapheme |-> grapheme])
    /\ UNCHANGED <<sequence, input, last_added, aborted>>
    /\ UNCHANGED <<grammarVars, syllableVars, counterVars, sampleVars>>

\* show_contents of the field of the inventory with a click on button i.
InventoryRemove(i) ==
    /\ Len(events) < MaxEvents
    /\ i \in 1..Len(graphemes)
    /\ graphemes' = Update(graphemes, i)
    /\ events' = Append(events, [op |-> "remove", storage |-> "BTreeSet",
                                 grapheme |-> graphemes[i]])
    /\ UNCHANGED <<sequence, input, last_added, aborted>>
    /\ UNCHANGED <<grammarVars, syllableVars, counterVars, sampleVars>>

GraphemeNext ==
    \/ \E grapheme \in Range(GraphemeOrder) : SequenceAdd(grapheme)
    \/ \E i \in 1..MaxEvents : SequenceRemove(i)
    \/ \E grapheme \in Range(GraphemeOrder) : InventoryAdd(grapheme)
    \/ \E i \in 1..MaxEvents : InventoryRemove(i)

\* ------------------------------------------------ the input buffer of a field

\* The longest buffer, and the longest list, the model of the buffer follows.
MaxInput == 2

\* U+00A0 NO-BREAK SPACE: White_Space, two bytes in UTF-8.
NoBreakSpace == "<U+00A0>"

\* char::is_whitespace on the characters the model's user types.
IsWhitespace(chr) == chr \in {" ", NoBreakSpace}

\* char::len_utf8 on those characters.
LenUtf8(chr) == IF chr \in {NoBreakSpace, "é"} THEN 2 ELSE 1

\* What one change of the text field appends to the buffer: a key, or a paste.
TypedInputs ==
    {<<"a">>, <<"é">>, <<" ">>, <<NoBreakSpace>>,
     <<" ", " ", "a">>, <<"a", " ", " ", "é", " ">>}

\* The byte offset of character i of a String, counted from 0.
RECURSIVE ByteOffset(_, _)
ByteOffset(string, i) ==
    IF i = 1 THEN 0 ELSE ByteOffset(string, i - 1) + LenUtf8(string[i - 1])

\* str::is_char_boundary
IsCharBoundary(string, index) ==
    \E i \in 1..(Len(string) + 1) : ByteOffset(string, i) = index

\* self.input.find(char::is_whitespace): the byte offset found, if any.
FindWhitespace(string) ==
    LET found == {i \in 1..Len(string) : IsWhitespace(string[i])}
    IN IF found = {} THEN {}
       ELSE {ByteOffset(string, CHOOSE i \in found : \A j \in found : i <= j)}

\* &self.input[..end]: the characters before byte offset end.
SliceTo(string, end) ==
    SubSeq(string, 1, Cardinality({i \in 1..Len(string) : ByteOffset(string, i) < end}))

\* self.input.replace_range(..=space_pos, ""): panics unless byte offset
\* space_pos + 1 is a char boundary; else the bytes up to it are removed.
ReplaceRange(string, space_pos) ==
    IF ~IsCharBoundary(string, space_pos + 1) THEN [panics |-> TRUE, string |-> string]
    ELSE [panics |-> FALSE,
          string |-> SubSeq(string,
                            Cardinality({i \in 1..Len(string) :
                                            ByteOffset(string, i) < space_pos + 1}) + 1,
                            Len(string))]

\* while let Some(space_pos) = self.input.find(char::is_whitespace) { ... }
\* Result: the buffer left, the graphemes added in order, whether it panicked.
RECURSIVE SplitInput(_, _)
SplitInput(string, added) ==
    IF FindWhitespace(string) = {}
    THEN [input |-> string, added |-> added, aborted |-> FALSE]
    ELSE LET space_pos == CHOOSE pos \in FindWhitespace(string) : TRUE
             added1 == IF space_pos > 0 THEN Append(added, SliceTo(string, space_pos))
                       ELSE added
             replaced == ReplaceRange(string, space_pos)
         IN IF replaced.panics
            THEN [input |-> string, added |-> added1, aborted |-> TRUE]
            ELSE SplitInput(replaced.string, added1)

\* The list with the graphemes added, and the history with their additions.
RECURSIVE AddAll(_, _)
AddAll(list, added) ==
    IF added = <<>> THEN list ELSE AddAll(VecAdd(list, TextOf(Head(added))), Tail(added))

RECURSIVE LogAll(_, _)
LogAll(history, added) ==
    IF added = <<>> THEN history
    ELSE LogAll(Append(history, [op |-> "add", storage |-> "Vec",
                                 grapheme |-> TextOf(Head(added))]), Tail(added))

\* show_input with input_buffer.changed(): typed is appended to the buffer and
\* the buffer is split at its whitespace.
TypeInput(typed) ==
    /\ ~aborted
    /\ LET r == SplitInput(input \o typed, <<>>)
       IN /\ Len(r.input) <= MaxInput
          /\ Len(sequence) + Len(r.added) <= MaxInput
          /\ Len(events) + Len(r.added) <= MaxEvents
          /\ input' = r.input
          /\ last_added' = r.added
          /\ sequence' = AddAll(sequence, r.added)
          /\ events' = LogAll(events, r.added)
          /\ aborted' = r.aborted
    /\ UNCHANGED graphemes
    /\ UNCHANGED <<grammarVars, syllableVars, counterVars, sampleVars>>

\* show_input with input_buffer.lost_focus(): a buffer that is not empty is
\* added and cleared.
LoseFocus ==
    /\ ~aborted
    /\ input # <<>>
    /\ Len(sequence) < MaxInput
    /\ Len(events) < MaxEvents
    /\ last_added' = <<input>>
    /\ sequence' = VecAdd(sequence, TextOf(input))
    /\ events' = Append(events, [op |-> "add", storage |-> "Vec", grapheme |-> TextOf(input)])
    /\ input' = <<>>
    /\ UNCHANGED <<graphemes, aborted>>
    /\ UNCHANGED <<grammarVars, syllableVars, counterVars, sampleVars>>

InputNext ==
    \/ \E typed \in TypedInputs : TypeInput(typed)
    \/ LoseFocus

\* ================================================ synthesis.rs: the synthesis

\* Calls of synthesize_syllable nested deeper than this exhaust the stack.
StackLimit == 8

\* What a call that exhausts the stack, or that panics, yields in place of a word.
NoReturn == "<no return>"
Panicked == "<panic>"
Failures == {NoReturn, Panicked}

\* SyllableVars::get falling back on the single root for an unknown name.
SyllableVarsGetOrSingle(r, map, var) ==
    IF IsRootName(var) THEN {r[RootField(var)]}
    ELSE IF var \in DOMAIN map THEN {map[var]}
    ELSE {r.single}

\* SyllableVars::get, as the set holding the rule found, if any.
SyllableVarsGet(r, map, var) ==
    IF IsRootName(var) THEN {r[RootField(var)]}
    ELSE IF var \in DOMAIN map THEN {map[var]}
    ELSE {}

\* for grapheme in list { output.push_str(grapheme.as_str()) }
RECURSIVE PushAll(_, _)
PushAll(output, list) ==
    IF list = <<>> THEN output ELSE PushAll(output \o Head(list), Tail(list))

\* synthesize_syllable: every output the random choices allow, NoReturn among
\* them when some choice nests the calls beyond the stack.
RECURSIVE SynthesizeSyllable(_, _, _, _, _)
RECURSIVE SynthesizeLeaves(_, _, _, _, _)
RECURSIVE SynthesizeLeaf(_, _, _, _, _)
SynthesizeLeaf(leaf, r, map, output, depth) ==
    CASE leaf.kind = "Sequence" -> {PushAll(output, leaf.items)}
      [] leaf.kind = "Set" ->
            IF leaf.items = <<>> THEN {output}
            ELSE {output \o leaf.items[i] : i \in 1..Len(leaf.items)}
      [] leaf.kind = "Variable" ->
            LET found == SyllableVarsGet(r, map, leaf.name)
            IN IF found = {} THEN {output}
               ELSE UNION {SynthesizeSyllable(new_rule, r, map, output, depth + 1) :
                              new_rule \in found}
      [] OTHER -> {output}

SynthesizeLeaves(leaves, r, map, output, depth) ==
    IF leaves = <<>> THEN {output}
    ELSE UNION {IF o = NoReturn THEN {NoReturn}
                ELSE SynthesizeLeaves(Tail(leaves), r, map, o, depth) :
                   o \in SynthesizeLeaf(Head(leaves), r, map, output, depth)}

SynthesizeSyllable(rule, r, map, output, depth) ==
    IF depth > StackLimit THEN {NoReturn}
    ELSE UNION {SynthesizeLeaves(rule[a], r, map, output, depth) : a \in 1..Len(rule)}

\* synthesize_syllable appended to each of the outputs so far.
ThenSyllable(outputs, rule, r, map) ==
    UNION {IF o = NoReturn THEN {NoReturn} ELSE SynthesizeSyllable(rule, r, map, o, 1) :
              o \in outputs}

RECURSIVE ThenMiddle(_, _, _, _)
ThenMiddle(outputs, times, r, map) ==
    IF times = 0 THEN outputs
    ELSE ThenMiddle(ThenSyllable(outputs, r.middle, r, map), times - 1, r, map)

\* WeightedIndex::new(weights): an error for no weights and for a zero total.
WeightedIndexNew(weights) ==
    IF weights = <<>> THEN "NoItem"
    ELSE IF SumOf(weights) = 0 THEN "AllWeightsZero"
    ELSE "Ok"

\* 1 + WeightedIndex::sample: the syllable counts that can be drawn.
NumSyllables(weights) == {i \in 1..Len(weights) : weights[i] > 0}

\* The body with the middle rule used num_syllables - 1 times.
MorphemeWithMiddle(r, map, num_syllables) ==
    IF num_syllables = 1 THEN ThenSyllable({""}, r.single, r, map)
    ELSE ThenSyllable(
            ThenMiddle(ThenSyllable({""}, r.initial, r, map), num_syllables - 1, r, map),
            r.terminal, r, map)

\* The body of synthesize_morpheme once num_syllables is drawn.
MorphemeOfLength(r, map, num_syllables) ==
    IF num_syllables = 1 THEN ThenSyllable({""}, r.single, r, map)
    ELSE ThenSyllable(
            ThenMiddle(ThenSyllable({""}, r.initial, r, map), num_syllables - 2, r, map),
            r.terminal, r, map)

SynthesizeMorpheme(r, map, weights) ==
    IF WeightedIndexNew(weights) # "Ok" THEN {Panicked}
    ELSE UNION {MorphemeOfLength(r, map, n) : n \in NumSyllables(weights)}

\* ------------------------------------------------ the synthesis tab's handlers

\* draw_syllable_rules in a frame whose click is elsewhere.
RulesRedrawn ==
    LET reach == FlagReachableVars(syllable_roots, vars)
    IN /\ reachable' = reach
       /\ vars' = RetainVars(vars, reach)
       /\ pruned' = DOMAIN vars \ DOMAIN vars'
       /\ UNCHANGED <<syllable_roots, syllable_edit_mode>>

\* The sample buttons enabled whatever the weights.
GenerateAlwaysEnabled(col) == TRUE

\* add_enabled(verify_weights(...)) of the button of column col.
GenerateEnabled(col) == VerifyWeights(syllable_wgts[col])

\* The words shown in place of the 24 drawn: take(24) of repeat_with(producer).
TakeWords == 24

Shown(word) == IF word = "" THEN "(blank)" ELSE word

\* draw_test_generator with a click on the button of column col, then the rest
\* of the frame.
Generate(col) ==
    /\ GenerateEnabled(col)
    /\ LET weights == syllable_wgts[col]
           results == SynthesizeMorpheme(syllable_roots, vars, weights)
       IN /\ invoked' = {weights}
          /\ \E drawn \in SUBSET results :
                /\ drawn # {} /\ Cardinality(drawn) <= TakeWords
                /\ test_words' = IF drawn \cap Failures # {} THEN drawn \cap Failures
                                 ELSE {Shown(word) : word \in drawn}
    /\ RulesRedrawn
    /\ CounterRedrawn
    /\ UNCHANGED <<input_text, output_text, lexicon>>
    /\ UNCHANGED <<grammarVars, graphemeVars>>

\* draw_syllable_counter with "Max Syllables" of column col dragged to m.
SetMaxSyllables(col, m) ==
    /\ LET shown == CounterShown([max_syllables EXCEPT ![col] = m], syllable_wgts)
       IN /\ max_syllables' = shown.max_syllables
          /\ syllable_wgts' = shown.syllable_wgts
    /\ max_syllables' # max_syllables
    /\ RulesRedrawn
    /\ invoked' = {}
    /\ UNCHANGED <<test_words, input_text, output_text, lexicon>>
    /\ UNCHANGED <<grammarVars, graphemeVars>>

\* draw_syllable_counter with weight i of column col dragged to w.
SetWeight(col, i, w) ==
    /\ LET shown == CounterShown(max_syllables, syllable_wgts)
       IN /\ i \in 1..Len(shown.syllable_wgts[col])
          /\ shown.syllable_wgts[col][i] # w
          /\ max_syllables' = shown.max_syllables
          /\ syllable_wgts' = [shown.syllable_wgts EXCEPT ![col][i] = w]
    /\ RulesRedrawn
    /\ invoked' = {}
    /\ UNCHANGED <<test_words, input_text, output_text, lexicon>>
    /\ UNCHANGED <<grammarVars, graphemeVars>>

\* ==================================================== translate.rs: translation

\* The characters the model's user types.
InputTexts == {<<"a">>, <<"A", " ", "b">>, <<"b", ".">>}

\* char::is_alphanumeric on those characters.
IsAlphanumeric(chr) == chr \notin {" ", "."}

\* The word as typed, its letters in the case they have.
RECURSIVE AsTyped(_)
AsTyped(word) == IF word = <<>> THEN "" ELSE Head(word) \o AsTyped(Tail(word))

\* str::to_lowercase on words of those characters.
RECURSIVE ToLowercase(_)
ToLowercase(word) ==
    IF word = <<>> THEN ""
    ELSE (IF Head(word) = "A" THEN "a" ELSE Head(word)) \o ToLowercase(Tail(word))

\* translate_word: each way the call can end, [lexicon, word, calls], where
\* calls counts the invocations of synthesize_morpheme.
TranslateWord(word, lex, r, map, wgts) ==
    LET key == ToLowercase(word)
    IN IF key \in DOMAIN lex THEN {[lexicon |-> lex, word |-> lex[key], calls |-> 0]}
       ELSE {[lexicon |-> lex @@ (key :> new), word |-> new, calls |-> 1] :
                new \in SynthesizeMorpheme(r, map, wgts[2])}

\* The loop of draw_translate_tab from character i on, with the word begun at
\* word_start (0: none).  Each way it can end: [lexicon, output_text, calls].
RECURSIVE TranslateFrom(_, _, _, _, _, _, _, _, _)
TranslateFrom(text, i, word_start, lex, output, calls, r, map, wgts) ==
    IF output \in Failures THEN {[lexicon |-> lex, output_text |-> output, calls |-> calls]}
    ELSE IF i > Len(text) THEN
        IF word_start = 0 THEN {[lexicon |-> lex, output_text |-> output, calls |-> calls]}
        ELSE {[lexicon |-> t.lexicon,
               output_text |-> IF t.word \in Failures THEN t.word ELSE output \o t.word,
               calls |-> calls + t.calls] :
                 t \in TranslateWord(SubSeq(text, word_start, Len(text)), lex, r, map, wgts)}
    ELSE IF IsAlphanumeric(text[i]) THEN
        TranslateFrom(text, i + 1, IF word_start = 0 THEN i ELSE word_start,
                      lex, output, calls, r, map, wgts)
    ELSE IF word_start = 0 THEN
        TranslateFrom(text, i + 1, 0, lex, output \o text[i], calls, r, map, wgts)
    ELSE UNION {TranslateFrom(text, i + 1, 0, t.lexicon,
                              IF t.word \in Failures THEN t.word
                              ELSE (output \o t.word) \o text[i],
                              calls + t.calls, r, map, wgts) :
                   t \in TranslateWord(SubSeq(text, word_start, i - 1), lex, r, map, wgts)}

\* The Translate button enabled whatever the configuration.
TranslateAlwaysEnabled == TRUE

\* add_enabled(is_config_valid(...)) of the Translate button.
TranslateEnabled == IsConfigValid(syllable_wgts)

\* draw_translate_tab with the input box edited to text.
SetInputText(text) ==
    /\ input_text # text
    /\ input_text' = text
    /\ invoked' = {}
    /\ UNCHANGED <<test_words, output_text, lexicon>>
    /\ UNCHANGED <<grammarVars, syllableVars, counterVars, graphemeVars>>

\* draw_translate_tab with a click on Translate.
Translate ==
    /\ TranslateEnabled
    /\ \E t \in TranslateFrom(input_text, 1, 0, lexicon, "", 0,
                              syllable_roots, vars, syllable_wgts) :
          /\ lexicon' = t.lexicon
          /\ output_text' = t.output_text
          /\ invoked' = IF t.calls > 0 THEN {syllable_wgts[2]} ELSE {}
    /\ UNCHANGED <<test_words, input_text>>
    /\ UNCHANGED <<grammarVars, syllableVars, counterVars, graphemeVars>>

\* ------------------------------------------------ synthesis on given grammars

Sequence(items) == [kind |-> "Sequence", name |-> "", items |-> items]
Set(items) == [kind |-> "Set", name |-> "", items |-> items]

\* single = [k a t]
KatRoots == [RootsDefault EXCEPT !.single = <<<<Sequence(<<"k", "a", "t">>)>>>>]

\* initial = [p a], middle = [m], terminal = [t o], single = [s]
PatoRoots ==
    [initial |-> <<<<Sequence(<<"p", "a">>)>>>>, middle |-> <<<<Sequence(<<"m">>)>>>>,
     terminal |-> <<<<Sequence(<<"t", "o">>)>>>>, single |-> <<<<Sequence(<<"s">>)>>>>]

\* Sets, a named variable, a root referred to by name, two alternatives, and
\* leaves that hold nothing before leaves that hold graphemes.
MixedRoots ==
    [initial |-> <<<<Set(<<"a", "e">>), Variable("C")>>>>,
     middle |-> <<<<Variable("C"), LeafBlank, LeafSet>>>>,
     terminal |-> <<<<Variable(""), Sequence(<<"k">>), LeafBlank, LeafSet,
                     LeafUninitialized, Sequence(<<"a">>)>>>>,
     single |-> <<<<Variable("TerminalSyllable")>>, <<Sequence(<<"b">>)>>>>]

MixedVars == ("C" :> <<<<Sequence(<<"n">>)>>>>)

\* The grammars synthesis is applied to.
GrammarPool ==
    {[roots |-> RootsDefault, vars |-> <<>>], [roots |-> KatRoots, vars |-> <<>>],
     [roots |-> PatoRoots, vars |-> <<>>], [roots |-> MixedRoots, vars |-> MixedVars]}

\* The valid weight vectors synthesis is applied with.
WeightPool == {<<100>>, <<0, 100>>, <<0, 0, 100>>, <<0, 50, 50>>, <<50, 0, 0, 50>>}

\* A language as the editors leave it: a grammar of the pool, flagged, and two
\* valid columns of weights.
SynthesisInit ==
    /\ GrammarInit
    /\ GraphemeInit
    /\ \E g \in GrammarPool :
          /\ syllable_roots = g.roots
          /\ vars = g.vars
          /\ reachable = FlagReachableVars(g.roots, g.vars)
    /\ syllable_edit_mode = "View"
    /\ pruned = {}
    /\ \E function_wgts \in WeightPool, content_wgts \in WeightPool :
          /\ syllable_wgts = <<function_wgts, content_wgts>>
          /\ max_syllables = <<Len(function_wgts), Len(content_wgts)>>
    /\ test_words = {} /\ invoked = {}
    /\ input_text = <<>> /\ output_text = "" /\ lexicon = <<>>

SynthesisNext == \E col \in 1..2 : Generate(col)

\* The names the Variable leaves of the cyclic grammars hold.
RefNames == {"X", "Y", "SingleSyllable"}

\* Grammars whose rules refer to themselves, to each other and to a root: two
\* roots and the rules X and Y, each leaf a Variable.
CyclicInit ==
    /\ GrammarInit /\ SampleInit /\ GraphemeInit
    /\ \E a \in RefNames, b \in RefNames, c \in RefNames, d \in RefNames, e \in RefNames :
          /\ syllable_roots = [RootsDefault EXCEPT !.single = <<<<Variable(a)>>>>,
                                                   !.initial = <<<<Variable(b)>>>>]
          /\ vars = ("X" :> <<<<Variable(c), Variable(d)>>>>) @@ ("Y" :> <<<<Variable(e)>>>>)
    /\ reachable = {}
    /\ syllable_edit_mode = "View"
    /\ pruned = {}

ReachabilityNext ==
    \/ SyllableDrawFrame
    \/ \E m \in EditModes : SyllableModePicker(m)

\* A language whose rules yield several words, with valid weights.
TranslateInit ==
    /\ GrammarInit
    /\ GraphemeInit
    /\ syllable_roots = MixedRoots
    /\ vars = MixedVars
    /\ reachable = FlagReachableVars(MixedRoots, MixedVars)
    /\ syllable_edit_mode = "View"
    /\ pruned = {}
    /\ \E content_wgts \in {<<100>>, <<50, 0, 0, 50>>} :
          /\ syllable_wgts = <<<<100>>, content_wgts>>
          /\ max_syllables = <<1, Len(content_wgts)>>
    /\ test_words = {} /\ invoked = {}
    /\ input_text = <<>> /\ output_text = "" /\ lexicon = <<>>

\* The maxima and the percentages the fields are dragged to, their ends included.
CounterChoices == {1, 2, 100}

PercentChoices == {0, 1, 100}

\* A weight list of len fields, every one dragged to the same percentage.
Uniform(len, percent) == [i \in 1..len |-> percent]

\* The word lengths after the user has filled the function column.
SumsInit ==
    /\ GrammarInit
    /\ GraphemeInit
    /\ SyllableInit
    /\ \E len \in CounterChoices, percent \in PercentChoices :
          /\ syllable_wgts = <<Uniform(len, percent), <<0>>>>
          /\ max_syllables = <<len, 1>>
    /\ test_words = {} /\ invoked = {}
    /\ input_text = <<>> /\ output_text = "" /\ lexicon = <<>>

SumsNext ==
    \/ \E m \in CounterChoices : SetMaxSyllables(1, m)
    \/ \E i \in CounterChoices, w \in WeightChoices : SetWeight(1, i, w)

TranslateNext ==
    \/ \E text \in InputTexts : SetInputText(text)
    \/ Translate

WeightsNext ==
    \/ \E col \in 1..2, m \in 1..MaxSyllables : SetMaxSyllables(col, m)
    \/ \E col \in 1..2, i \in 1..MaxSyllables, w \in WeightChoices : SetWeight(col, i, w)
    \/ \E col \in 1..2 : Generate(col)
    \/ \E text \in InputTexts : SetInputText(text)
    \/ Translate

all_vars == <<grammarVars, syllableVars, counterVars, sampleVars, graphemeVars>>

Init == GrammarInit /\ SyllableInit /\ SampleInit /\ GraphemeInit

\* The handlers that change the shape of the forest.
ShapeNext ==
    \/ \E m \in EditModes : DrawModePicker(m)
    \/ \E p \in PatternChoices : SelectFirstFind(p)
    \/ \E owner \in {0} \cup NodeIds, i \in 1..(MaxNodes + 1), p \in PatternChoices :
          InsertFind(owner, i, p)
    \/ \E n \in NodeIds, p \in PatternChoices : AddDeepMatch(n, p)
    \/ \E n \in NodeIds : DeleteFindNode(n)

Next ==
    \/ FindNext \/ ReplaceNext \/ SyllableNext \/ WeightsNext \/ GraphemeNext
    \/ InputNext \/ ReorderNext

Spec == Init /\ [][Next]_all_vars

\* The find-pattern editor alone.
SpecFind == Init /\ [][FindNext]_all_vars

\* The rule editor with its captures, saved and loaded.
SpecRule == Init /\ [][ShapeNext \/ ReplaceNext]_all_vars

\* The syllable-rule editor.
SpecSyllable == Init /\ [][SyllableNext]_all_vars

\* The sample buttons on the grammars and the weights of the pools.
SpecSynthesis == SynthesisInit /\ [][SynthesisNext]_all_vars

\* The frames of the syllable rules on the cyclic grammars.
SpecReachability == CyclicInit /\ [][ReachabilityNext]_all_vars

\* The translate tab of a language with rules.
SpecTranslate == TranslateInit /\ [][TranslateNext]_all_vars

\* The list of rules: added to, removed from, reordered.
SpecReorder == Init /\ [][ReorderNext]_all_vars

\* The input buffer of a grapheme field.
SpecInput == Init /\ [][InputNext]_all_vars

\* The grapheme fields.
SpecGrapheme == Init /\ [][GraphemeNext]_all_vars

\* The function column of the word lengths, from one field to a hundred.
SpecSums == SumsInit /\ [][SumsNext]_all_vars

\* The word lengths, the sample buttons and the translation.
SpecWeights == Init /\ [][WeightsNext]_all_vars

\* ===================================================== grammar.rs: properties

\* What a label reads before any number: the type name and the modifier.
BaseText(node) == TypeText(node.pattern) \o ModifierText(node.multimatch, node.optional)

\* The number a label ends with: 0 for none, -1 for a label of another form.
NumberOf(node) ==
    IF node.label = BaseText(node) THEN 0
    ELSE IF \E k \in 1..(MaxNodes + 1) : node.label = BaseText(node) \o " " \o ToString(k)
         THEN CHOOSE k \in 1..(MaxNodes + 1) : node.label = BaseText(node) \o " " \o ToString(k)
         ELSE 0 - 1

\* The nodes of the forest with the identity of node n.
SameClass(n) == {m \in DOMAIN heap : FindPatternId(heap[m]) = FindPatternId(heap[n])}

\* The same, in traversal order: each root, then its descendants, then the next root.
ClassInOrder(n) == FilterSeq(DepthFirst(heap, find_patterns), SameClass(n))

\* The roots and their direct children.
ShallowNodes ==
    Range(find_patterns) \cup UNION {Range(heap[r].children) : r \in Range(find_patterns)}

\* C3: no two nodes of the rule's forest, at any depth, carry the same label.
C3_NoLabelCollision ==
    Cardinality({heap[n].label : n \in DOMAIN heap}) = Cardinality(DOMAIN heap)

\* C4: a label ends with a number if and only if more than one node of the whole
\* forest, nested children at every depth included, has the node's identity.
C4_NumberIffDuplicate ==
    \A n \in DOMAIN heap : (NumberOf(heap[n]) # 0) <=> (Cardinality(SameClass(n)) > 1)

C6_SequentialNumbering ==
    LET after == LabelPass(heap, find_patterns).counter
    IN \A n \in DOMAIN heap :
          LET id == FindPatternId(heap[n])
              seq == ClassInOrder(n)
              total_count == Cardinality(SameClass(n))
          IN total_count > 1 =>
                /\ \A j \in 1..total_count :
                      /\ NumberOf(heap[seq[j]]) = j
                      /\ Cardinality({m \in SameClass(n) : NumberOf(heap[m]) = j}) = 1
                /\ id \in DOMAIN after /\ after[id][1] = total_count

\* Every stored label replaced by one no pass would write.
StaleLabels(h) == [n \in DOMAIN h |-> [h[n] EXCEPT !.label = "stale 7"]]

\* C7: a second recompute_pattern_labels on an unchanged forest writes the
\* labels the first wrote, whatever labels were stored before the first.
C7_LabelDeterminism ==
    LET once == RecomputePatternLabels(StaleLabels(heap), find_patterns)
        twice == RecomputePatternLabels(once, find_patterns)
        fresh == RecomputePatternLabels(heap, find_patterns)
    IN \A n \in DOMAIN heap :
          /\ twice[n].label = once[n].label
          /\ once[n].label = fresh[n].label

C7_Witness ==
    /\ Cardinality(DOMAIN heap) = 3
    /\ \E n \in DOMAIN heap : heap[n].children # <<>> /\ NumberOf(heap[n]) = 2
    /\ \E n \in DOMAIN heap : heap[n].optional /\ NumberOf(heap[n]) = 0

\* C1: once find node n is removed, every capture of n fails to upgrade, and a
\* capture of a node outside the removed subtree still upgrades to the node it
\* held, unchanged in kind and modifiers, also after the labels are recomputed.
C1_CaptureInvalidation ==
    \A n \in DOMAIN heap :
        LET r == RetainFind(heap, find_patterns, n)
            h2 == RecomputePatternLabels(r.heap, r.find_patterns)
        IN \A i \in 1..Len(replace_patterns) :
              LET c == replace_patterns[i]
              IN c.kind = "Capture" =>
                    /\ c.capture = n => (~IsValid(r.heap, c) /\ ~IsValid(h2, c))
                    /\ (Upgrade(heap, c.capture) /\ c.capture \notin Subtree(heap, n)) =>
                          /\ IsValid(h2, c)
                          /\ c.capture \in Range(DepthFirst(h2, r.find_patterns))
                          /\ FindPatternId(h2[c.capture]) = FindPatternId(heap[c.capture])

\* A frame has just deleted a captured node and swept its capture, and a capture
\* of another node is still there and resolved.
C1_Witness ==
    /\ last.op = "Draw" /\ last.n > 0
    /\ \E i \in 1..Len(replace_patterns) :
          replace_patterns[i].kind = "Capture" /\ Upgrade(heap, replace_patterns[i].capture)

\* The step is Application::new reading what save stored.
LoadStep == storage.stored /\ ~storage'.stored

\* The place of node n in the forest: its rank in traversal order.
PositionOf(h, roots, n) ==
    CHOOSE i \in 1..Len(DepthFirst(h, roots)) : DepthFirst(h, roots)[i] = n

UniqueLabel(h, n) == \A m \in DOMAIN h : m # n => h[m].label # h[n].label

\* C2: a capture whose target's label is unique in the rule when saved is, after
\* the load, resolved to the node at the same place, which has the saved label.
C2_CaptureRoundTrip ==
    [][LoadStep =>
        \A i \in 1..Len(replace_patterns) :
            LET c == replace_patterns[i]
            IN (c.kind = "Capture" /\ Upgrade(heap, c.capture) /\ UniqueLabel(heap, c.capture)) =>
                  /\ replace_patterns'[i].kind = "Capture"
                  /\ Upgrade(heap', replace_patterns'[i].capture)
                  /\ PositionOf(heap', find_patterns', replace_patterns'[i].capture)
                        = PositionOf(heap, find_patterns, c.capture)
                  /\ heap'[replace_patterns'[i].capture].label = storage.replace_patterns[i].text
      ]_all_vars

\* C8: load finds a saved label wherever in the forest a node carries it, nested
\* children included.
C8_LoadCoversForest ==
    [][LoadStep =>
        \A i \in 1..Len(storage.replace_patterns) :
            LET e == storage.replace_patterns[i]
            IN (e.kind = "Capture" /\ \E m \in DOMAIN heap' : heap'[m].label = e.text) =>
                  /\ Upgrade(heap', replace_patterns'[i].capture)
                  /\ heap'[replace_patterns'[i].capture].label = e.text
      ]_all_vars

SameEntries(a, b) ==
    /\ Len(a) = Len(b)
    /\ \A j \in 1..Len(a) :
          a[j].kind = b[j].kind /\ a[j].capture = b[j].capture /\ a[j].text = b[j].text

\* C9: load keeps every replace entry; a capture whose saved label no node of
\* the rule carries is unresolved afterwards, and the other entries are what
\* load makes of the stored list without it.
C9_LoadMissIsSilent ==
    [][LoadStep =>
        LET image == storage.replace_patterns
        IN /\ Len(replace_patterns') = Len(image)
           /\ \A i \in 1..Len(image) :
                 (image[i].kind = "Capture"
                     /\ image[i].text \notin {heap'[m].label : m \in DOMAIN heap'}) =>
                    /\ replace_patterns'[i].kind = "Capture"
                    /\ ~IsValid(heap', replace_patterns'[i])
                    /\ SameEntries(
                          RemoveAt(replace_patterns', i),
                          LoadGrammarSerdeMetadata(heap', find_patterns',
                              [j \in 1..(Len(image) - 1) |->
                                  DeserializeReplace(RemoveAt(image, i)[j])]))
      ]_all_vars

\* A load has just met a saved label that no node carries, left that capture
\* unresolved and resolved another.
C9_Witness ==
    /\ last.op = "Load" /\ last.n > 0
    /\ \E i, j \in 1..Len(replace_patterns) :
          /\ replace_patterns[i].kind = "Capture" /\ ~Upgrade(heap, replace_patterns[i].capture)
          /\ replace_patterns[j].kind = "Capture" /\ Upgrade(heap, replace_patterns[j].capture)

\* ---------------------------------------------------------------- reachability

\* The names in the Variable leaves of one rule.
NamesIn(rule) == {leaf.name : leaf \in {x \in Range(FlatLeaves(rule)) : x.kind = "Variable"}}

\* The least set holding `names` and every name in a rule of the map whose own
\* name it holds.
RECURSIVE ReferencedFrom(_, _)
ReferencedFrom(names, map) ==
    LET more == names \cup UNION {NamesIn(map[v]) : v \in names \cap DOMAIN map}
    IN IF more = names THEN names ELSE ReferencedFrom(more, map)

ReferencedNames(r, map) ==
    ReferencedFrom(NamesIn(r.initial) \cup NamesIn(r.middle)
                       \cup NamesIn(r.terminal) \cup NamesIn(r.single), map)

RootOrders == {p \in [1..4 -> 1..4] : \A i, j \in 1..4 : p[i] = p[j] => i = j}

\* C10: flag_reachable_vars leaves in `reachable` exactly the names in Variable
\* leaves of the four root rules or of a named rule referenced from them through
\* any chain of names, so a rule no such chain leads to is left out even when it
\* has content; and the set is the same for every order of the roots and whether
\* the pending rules are taken from the back or from the front.
C10_ReachabilityCorrect ==
    LET expected == ReferencedNames(syllable_roots, vars)
        four == <<syllable_roots.initial, syllable_roots.middle,
                  syllable_roots.terminal, syllable_roots.single>>
    IN /\ FlagReachableVars(syllable_roots, vars) = expected
       /\ \A p \in RootOrders, back \in BOOLEAN :
             FlagLoop([i \in 1..4 |-> four[p[i]]], {}, vars, back) = expected

\* The flags are those of the grammar on screen, and a rule is flagged only
\* because another named rule refers to it.
C10_Witness ==
    /\ reachable = FlagReachableVars(syllable_roots, vars)
    /\ \E v \in reachable \cap DOMAIN vars :
          \A i \in 1..4 : v \notin NamesIn(RootsIter(syllable_roots)[i])

\* -------------------------------------------------------------------- pruning

\* The rule holds a leaf other than Uninitialized, in whichever alternative.
HasContent(rule) == \E i \in 1..Len(FlatLeaves(rule)) : Initialized(FlatLeaves(rule)[i])

\* C11: a frame never removes from the map a variable that no root reaches but
\* whose rule holds a leaf other than Uninitialized in any of its alternatives.
C11_UnreachableContentKept ==
    [][\A v \in DOMAIN vars :
          (v \notin FlagReachableVars(syllable_roots, vars) /\ HasContent(vars[v]))
              => v \in DOMAIN vars'
      ]_all_vars

\* C12: the retain of a frame removes v exactly when v is not flagged and the
\* first leaf of its first alternative is Uninitialized: every other variable
\* is in the map after the frame with a rule, a flagged one even when it is
\* still Uninitialized; a removed name is in the map afterwards only as the
\* fresh entry of a name typed in the same frame; the four roots stay.
C12_PruningPolicy ==
    [][LET reach == FlagReachableVars(syllable_roots, vars)
           removable(v) == v \notin reach /\ ~Initialized(vars[v][1][1])
       IN /\ reachable' = reach
          /\ pruned' = {v \in DOMAIN vars : removable(v)}
          /\ \A v \in DOMAIN vars :
                IF removable(v)
                THEN v \in DOMAIN vars' => vars'[v] = OrRuleDefault
                ELSE v \in DOMAIN vars'
          /\ DOMAIN syllable_roots' = {"initial", "middle", "terminal", "single"}
          /\ \A i \in 1..4 : RootsIter(syllable_roots')[i] # <<>>
      ]_all_vars

\* The last frame removed a variable and kept a flagged one that is still
\* Uninitialized.
C12_Witness ==
    /\ pruned # {}
    /\ \E v \in DOMAIN vars : v \in reachable /\ ~Initialized(vars[v][1][1])

\* -------------------------------------------------------------------- weights

\* C13: every weight vector a frame passes to synthesize_morpheme sums to 100,
\* so that WeightedIndex::new succeeds and a syllable count can be drawn; the
\* sample button of a column is enabled only for such a vector and the
\* Translate button only when both columns are such.
C13_GenerationGated ==
    /\ \A weights \in invoked :
          /\ SumOf(weights) = 100
          /\ WeightedIndexNew(weights) = "Ok"
          /\ NumSyllables(weights) # {}
          /\ Panicked \notin SynthesizeMorpheme(syllable_roots, vars, weights)
    /\ \A col \in 1..2 : GenerateEnabled(col) => SumOf(syllable_wgts[col]) = 100
    /\ TranslateEnabled =>
          (SumOf(syllable_wgts[1]) = 100 /\ SumOf(syllable_wgts[2]) = 100)

\* Words were sampled, and a translation has just minted a word.
C13_Witness ==
    /\ test_words # {}
    /\ invoked # {}
    /\ lexicon # <<>>

\* The vectors of C15's examples and the two columns the editor holds.
WeightVectors == {<<40, 30, 30>>, <<40, 30, 20>>, <<>>, syllable_wgts[1], syllable_wgts[2]}

\* C15: verify_weights is true exactly for a vector whose entries sum to 100,
\* true for [40,30,30], false for [40,30,20] and for the empty vector; and
\* is_config_valid is true exactly when each column sums to 100.
C15_WeightValidation ==
    /\ \A weights \in WeightVectors : VerifyWeights(weights) <=> (SumOf(weights) = 100)
    /\ VerifyWeights(<<40, 30, 30>>)
    /\ ~VerifyWeights(<<40, 30, 20>>)
    /\ ~VerifyWeights(<<>>)
    /\ IsConfigValid(syllable_wgts) <=>
          (SumOf(syllable_wgts[1]) = 100 /\ SumOf(syllable_wgts[2]) = 100)

\* One column is valid with two entries and the other sums to more than 100.
C15_Witness ==
    /\ VerifyWeights(syllable_wgts[1]) /\ Len(syllable_wgts[1]) = 2
    /\ SumOf(syllable_wgts[2]) > 100

\* ------------------------------------------------------------------ synthesis

\* The syllables a rule can yield on its own.
Syllables(rule) == SynthesizeSyllable(rule, syllable_roots, vars, "", 1)

\* Every concatenation of k syllables of the middle rule.
RECURSIVE Middles(_)
Middles(k) ==
    IF k = 0 THEN {""}
    ELSE {m \o s : m \in Middles(k - 1), s \in Syllables(syllable_roots.middle)}

\* The words of n syllables: single alone, or initial, n - 2 middles, terminal.
WordsOf(n) ==
    IF n = 1 THEN Syllables(syllable_roots.single)
    ELSE {(i \o m) \o t : i \in Syllables(syllable_roots.initial), m \in Middles(n - 2),
                          t \in Syllables(syllable_roots.terminal)}

\* C14: synthesize_morpheme draws a syllable count n in 1..len(weights), count
\* n only if weights[n-1] > 0, and yields one syllable of the single root when
\* n = 1 and otherwise one of initial, n - 2 of middle and one of terminal, in
\* this order; Sequence-only roots give the fixed words "kat" and "pato".
C14_SynthesisShape ==
    /\ \A col \in 1..2 :
          LET weights == syllable_wgts[col]
          IN /\ NumSyllables(weights) \subseteq 1..Len(weights)
             /\ \A n \in 1..Len(weights) : n \in NumSyllables(weights) <=> weights[n] > 0
             /\ \A n \in 1..Len(weights) :
                   MorphemeOfLength(syllable_roots, vars, n) = WordsOf(n)
             /\ SynthesizeMorpheme(syllable_roots, vars, weights)
                   = UNION {WordsOf(n) : n \in {k \in 1..Len(weights) : weights[k] > 0}}
    /\ \A weights \in invoked :
          test_words \subseteq
             {Shown(word) : word \in UNION {WordsOf(n) :
                                 n \in {k \in 1..Len(weights) : weights[k] > 0}}}
    /\ SynthesizeMorpheme(KatRoots, <<>>, <<100>>) = {"kat"}
    /\ SynthesizeMorpheme(PatoRoots, <<>>, <<0, 100>>) = {"pato"}
    /\ SynthesizeMorpheme(PatoRoots, <<>>, <<0, 0, 100>>) = {"pamto"}

\* Words of one, two and four syllables were sampled from Sequence-only roots.
C14_Witness ==
    /\ syllable_roots = PatoRoots
    /\ test_words = {"s", "pammto"}

\* A leaf that holds nothing: Blank, Uninitialized, an empty Set, a Variable
\* whose name is no root name and no key of the map.
Silent(leaf) ==
    \/ leaf.kind \in {"Blank", "Uninitialized"}
    \/ leaf.kind = "Set" /\ leaf.items = <<>>
    \/ leaf.kind = "Variable" /\ ~IsRootName(leaf.name) /\ leaf.name \notin DOMAIN vars

\* The leaves of an AndRule that are not silent, in order.
RECURSIVE Audible(_)
Audible(leaves) ==
    IF leaves = <<>> THEN <<>>
    ELSE (IF Silent(Head(leaves)) THEN <<>> ELSE <<Head(leaves)>>) \o Audible(Tail(leaves))

\* The AndRules of the grammar.
AndRules ==
    UNION {Range(RootsIter(syllable_roots)[i]) : i \in 1..4}
        \cup UNION {Range(vars[v]) : v \in DOMAIN vars}

\* C16: a Variable leaf whose name resolves to nothing, a Blank leaf, an
\* Uninitialized leaf and an empty Set append nothing and raise no error, and
\* the leaves after them in the same AndRule are processed in order.
C16_SilentLeaves ==
    /\ \A leaves \in AndRules, output \in {"", "z"} :
          /\ \A i \in 1..Len(leaves) :
                Silent(leaves[i]) =>
                   SynthesizeLeaf(leaves[i], syllable_roots, vars, output, 1) = {output}
          /\ SynthesizeLeaves(leaves, syllable_roots, vars, output, 1)
                = SynthesizeLeaves(Audible(leaves), syllable_roots, vars, output, 1)
          /\ SynthesizeLeaves(leaves, syllable_roots, vars, output, 1) \cap Failures = {}
    /\ SynthesizeLeaves(<<Variable("Q"), Sequence(<<"k">>), LeafBlank, LeafSet,
                          LeafUninitialized, Sequence(<<"a">>)>>,
                        RootsDefault, <<>>, "", 1) = {"ka"}
    /\ test_words \cap Failures = {}

\* A word was sampled through an AndRule that holds the four silent leaves
\* before and between leaves with graphemes.
C16_Witness ==
    /\ "ka" \in test_words
    /\ \E leaves \in AndRules :
          /\ {"Blank", "Uninitialized", "Set", "Variable"}
                \subseteq {leaves[i].kind : i \in {k \in 1..Len(leaves) : Silent(leaves[k])}}
          /\ \E i \in 1..Len(leaves) : i > 1 /\ ~Silent(leaves[i]) /\ Silent(leaves[i - 1])

\* The valid weight vectors of one and of two syllables.
ValidWeights == {<<100>>, <<0, 100>>, <<50, 50>>}

\* C17: synthesize_morpheme with valid weights returns a string for every
\* grammar the editor can produce, grammars whose rules refer to themselves or
\* to each other through Variable leaves included.
C17_SynthesisReturns ==
    \A weights \in ValidWeights :
       SynthesizeMorpheme(syllable_roots, vars, weights) \cap Failures = {}

\* ------------------------------------------------------------- labels, menus

\* C18: after every handler of the find-pattern editor (a node inserted at the
\* head, at an index, appended or as a deep-match child, a node deleted at any
\* depth, multimatch or optional toggled, a literal's text edited) the stored
\* label of every node is the one a fresh pass over the forest would write.
C18_LabelsNeverStale ==
    \A n \in DOMAIN heap : heap[n].label = LabelPass(heap, find_patterns).heap[n].label

\* A forest with a deep-match child, a toggled modifier, an edited literal and
\* a numbered label.
C18_Witness ==
    /\ \E n \in DOMAIN heap : heap[n].children # <<>>
    /\ \E n \in DOMAIN heap : heap[n].multimatch \/ heap[n].optional
    /\ \E n \in DOMAIN heap : heap[n].pattern = Literal("cat")
    /\ \E n \in DOMAIN heap : NumberOf(heap[n]) # 0

\* C19: every node of the find-pattern forest, nested deep-match children at
\* every depth included, is offered as a capture target by the menu that
\* inserts a replace-pattern entry.
C19_CaptureTargetsSpanForest ==
    \A n \in DOMAIN heap : Capture(n) \in ReplaceMenu(heap, find_patterns)

\* ------------------------------------------------------------ grapheme fields

\* How often grapheme occurs in a Vec or a BTreeSet.
Copies(container, grapheme) ==
    Cardinality({i \in 1..Len(container) : container[i] = grapheme})

\* How many events of this kind the history holds.
Events(op, container, grapheme) ==
    Cardinality({i \in 1..Len(events) :
                    events[i] = [op |-> op, storage |-> container, grapheme |-> grapheme]})

\* The last event on grapheme in the container is an add.
LastIsAdd(container, grapheme) ==
    \E i \in 1..Len(events) :
       /\ events[i] = [op |-> "add", storage |-> container, grapheme |-> grapheme]
       /\ \A j \in (i + 1)..Len(events) :
             events[j] # [op |-> "remove", storage |-> container, grapheme |-> grapheme]

\* The graphemes added to the Vec, in the order of their addition.
RECURSIVE VecAdds(_)
VecAdds(history) ==
    IF history = <<>> THEN <<>>
    ELSE (IF Head(history).op = "add" /\ Head(history).storage = "Vec"
          THEN <<Head(history).grapheme>> ELSE <<>>) \o VecAdds(Tail(history))

\* list is what is left of full after some elements are taken out.
RECURSIVE IsSubsequence(_, _)
IsSubsequence(list, full) ==
    IF list = <<>> THEN TRUE
    ELSE IF full = <<>> THEN FALSE
    ELSE IF Head(list) = Head(full) THEN IsSubsequence(Tail(list), Tail(full))
    ELSE IsSubsequence(list, Tail(full))

\* C20: a grapheme added twice to the BTreeSet is held once, added twice to the
\* Vec it is held twice, in insertion order; the BTreeSet contains g exactly
\* when g was added and not removed since, the Vec exactly when a copy of g
\* was added and not removed since (each click removes one copy).
C20_ContainerPolicies ==
    /\ BTreeSetAdd(BTreeSetAdd(<<>>, "sh"), "sh") = <<"sh">>
    /\ VecAdd(VecAdd(<<>>, "sh"), "sh") = <<"sh", "sh">>
    /\ \A g \in Range(GraphemeOrder) :
          /\ Copies(BTreeSetAdd(BTreeSetAdd(graphemes, g), g), g) = 1
          /\ VecAdd(VecAdd(sequence, g), g) = sequence \o <<g, g>>
          /\ Copies(graphemes, g) <= 1
          /\ Copies(sequence, g) = Events("add", "Vec", g) - Events("remove", "Vec", g)
          /\ BTreeSetContains(graphemes, g) <=> LastIsAdd("BTreeSet", g)
          /\ VecContains(sequence, g)
                <=> Events("add", "Vec", g) > Events("remove", "Vec", g)
    /\ IsSubsequence(sequence, VecAdds(events))

\* "sh" was added twice to the BTreeSet, which holds it once, and twice to the
\* Vec, which still holds one copy after the other was removed.
C20_Witness ==
    /\ Events("add", "BTreeSet", "sh") = 2
    /\ Events("remove", "BTreeSet", "sh") = 0
    /\ Copies(graphemes, "sh") = 1
    /\ Events("add", "Vec", "sh") = 2
    /\ Events("remove", "Vec", "sh") = 1
    /\ VecContains(sequence, "sh")

\* ------------------------------------------------------------ literal nodes

\* No Literal node has a child.
LiteralsAreLeaves ==
    \A n \in DOMAIN heap : heap[n].pattern.kind = "Literal" => heap[n].children = <<>>

\* A handler that leaves the shape of the forest as it is leaves every node
\* its pattern kind.
KindKept ==
    (/\ find_patterns' = find_patterns
     /\ DOMAIN heap' = DOMAIN heap
     /\ \A n \in DOMAIN heap : heap'[n].children = heap[n].children)
       => \A n \in DOMAIN heap : heap'[n].pattern.kind = heap[n].pattern.kind

\* C21: in every reachable state a Literal node has no children: deep-match
\* children are added to Phrase and Word nodes only, and no handler changes
\* the pattern kind of a node.
C21_LiteralsHaveNoChildren == []LiteralsAreLeaves /\ [][KindKept]_all_vars

\* A Literal whose text was edited sits as the deep-match child of a Word node
\* next to a Literal root.
C21_Witness ==
    /\ \E n \in DOMAIN heap :
          /\ heap[n].pattern.kind = "Word"
          /\ \E i \in 1..Len(heap[n].children) :
                heap[heap[n].children[i]].pattern = Literal("cat")
    /\ \E i \in 1..Len(find_patterns) : heap[find_patterns[i]].pattern.kind = "Literal"

\* ---------------------------------------------------------------- translation

\* The words the user has translated, with their lower-cased forms.
Folded == (<<"a">> :> "a") @@ (<<"A">> :> "a") @@ (<<"b">> :> "b")

\* C22: translate_word looks the word up by its lower-cased form; a hit returns
\* the stored form, calls no synthesis and leaves the lexicon as it is; a miss
\* synthesizes one morpheme, stores it under the lower-cased key and returns
\* it; the same word translated again, in any letter case, gets the same form.
C22_LexiconFirst ==
    /\ DOMAIN lexicon \subseteq {"a", "b"}
    /\ \A word \in DOMAIN Folded :
          LET key == Folded[word]
              results == TranslateWord(word, lexicon, syllable_roots, vars, syllable_wgts)
          IN /\ key \in DOMAIN lexicon =>
                   results = {[lexicon |-> lexicon, word |-> lexicon[key], calls |-> 0]}
             /\ key \notin DOMAIN lexicon =>
                   /\ results # {}
                   /\ \A t \in results :
                         /\ t.calls = 1
                         /\ t.word \in SynthesizeMorpheme(syllable_roots, vars, syllable_wgts[2])
                         /\ DOMAIN t.lexicon = DOMAIN lexicon \cup {key}
                         /\ t.lexicon[key] = t.word
                         /\ \A k \in DOMAIN lexicon : t.lexicon[k] = lexicon[k]
             /\ \A t \in results, again \in DOMAIN Folded :
                   Folded[again] = key =>
                      TranslateWord(again, t.lexicon, syllable_roots, vars, syllable_wgts)
                         = {[lexicon |-> t.lexicon, word |-> t.word, calls |-> 0]}

\* "A b" was translated with both words stored under their lower-cased keys,
\* with different forms, the last translation being all hits.
C22_Witness ==
    /\ DOMAIN lexicon = {"a", "b"}
    /\ lexicon["a"] # lexicon["b"]
    /\ input_text = <<"A", " ", "b">>
    /\ output_text = (lexicon["a"] \o " ") \o lexicon["b"]
    /\ invoked = {}

\* ------------------------------------------------------- deletion and captures

\* Node m is n or lies below n, found by climbing from m through its owners.
RECURSIVE IsUnder(_, _)
IsUnder(m, n) ==
    \/ m = n
    \/ /\ OwnerOf(heap, find_patterns, m) # 0
       /\ IsUnder(OwnerOf(heap, find_patterns, m), n)

\* C23: when a find node with deep-match children is deleted, no node of its
\* subtree stays alive, every capture of a node of the subtree fails to
\* upgrade, and the replace patterns drawn in that frame keep none of them.
C23_AncestorDeletion ==
    \A n \in DOMAIN heap :
       heap[n].children # <<>> =>
          LET r == RetainFind(heap, find_patterns, n)
              h2 == RecomputePatternLabels(r.heap, r.find_patterns)
              swept == DrawReplacePatternsDelete(h2, replace_patterns, 0)
          IN /\ \A m \in DOMAIN heap : IsUnder(m, n) => m \notin DOMAIN r.heap
             /\ \A i \in 1..Len(replace_patterns) :
                   LET c == replace_patterns[i]
                   IN (c.kind = "Capture" /\ Upgrade(heap, c.capture)
                          /\ IsUnder(c.capture, n)) =>
                         /\ ~IsValid(r.heap, c)
                         /\ ~IsValid(h2, c)
                         /\ c \notin Range(swept)

\* In Delete mode, a capture targets a deep-match child of a root that itself
\* has a child, next to a capture of the root.
C23_Witness ==
    /\ grammar_edit_mode = "Delete"
    /\ \E i \in 1..Len(replace_patterns), j \in 1..Len(replace_patterns) :
          LET c == replace_patterns[i]
              d == replace_patterns[j]
          IN /\ c.kind = "Capture" /\ Upgrade(heap, c.capture)
             /\ d.kind = "Capture" /\ Upgrade(heap, d.capture)
             /\ OwnerOf(heap, find_patterns, d.capture) = 0
             /\ OwnerOf(heap, find_patterns, c.capture) = d.capture
             /\ heap[c.capture].children # <<>>

\* The indices of the entries that were not clicked and are Literals or
\* captures of a node of h.
KeptEntries(h, clicked) ==
    {i \in 1..Len(replace_patterns) :
        /\ i # clicked
        /\ replace_patterns[i].kind = "Capture" => replace_patterns[i].capture \in DOMAIN h}

\* The entries at those indices, in their order.
KeptInOrder(h, clicked) ==
    [k \in 1..Cardinality(KeptEntries(h, clicked)) |->
        replace_patterns[CHOOSE i \in KeptEntries(h, clicked) :
                            Cardinality({j \in KeptEntries(h, clicked) : j <= i}) = k]]

\* C24: the replace patterns drawn in Delete mode lose the clicked entry and
\* every capture whose target is gone, and keep every other entry in its
\* order; so a rule drawn in Delete mode holds no dead capture.
C24_DeleteModeSweep ==
    /\ (grammar_edit_mode = "Delete" /\ find_patterns # <<>>) =>
          \A i \in 1..Len(replace_patterns) :
             replace_patterns[i].kind = "Capture" => replace_patterns[i].capture \in DOMAIN heap
    /\ \A clicked \in 0..Len(replace_patterns) :
          /\ DrawReplacePatternsDelete(heap, replace_patterns, clicked)
                = KeptInOrder(heap, clicked)
          /\ \A n \in DOMAIN heap :
                LET h == RetainFind(heap, find_patterns, n).heap
                IN DrawReplacePatternsDelete(h, replace_patterns, clicked)
                      = KeptInOrder(h, clicked)

\* A frame in Delete mode has swept a dead capture and kept the Literal.
C24_Witness ==
    /\ grammar_edit_mode = "Delete"
    /\ last.op = "Draw" /\ last.n > 0
    /\ Len(replace_patterns) = 1
    /\ replace_patterns[1].kind = "Literal"

\* ---------------------------------------------------------------- reachability

\* How often rule occurs among the rules pushed.
TimesPushed(pushes, rule) == Cardinality({i \in 1..Len(pushes) : pushes[i] = rule})

\* C25: flag_reachable_vars finishes for every grammar, rules that refer to
\* themselves, to each other in a cycle or to a root by name included: the
\* stack runs empty after the four roots and one iteration per rule pushed,
\* and the rule of a named variable is pushed at most once.
C25_FlaggingTerminates ==
    LET run == FlagRun(RootsIter(syllable_roots), {}, vars, <<>>, 0)
    IN /\ run.finished
       /\ run.iterations = 4 + Len(run.pushes)
       /\ Len(run.pushes) <= Cardinality(DOMAIN vars)
       /\ \A v \in DOMAIN vars :
             TimesPushed(run.pushes, vars[v])
                <= Cardinality({w \in DOMAIN vars : vars[w] = vars[v]})
       /\ run.reachable = FlagReachableVars(syllable_roots, vars)

\* A frame has flagged a grammar in which X and Y refer to each other and the
\* single root is referred to by name.
C25_Witness ==
    /\ reachable = {"X", "Y", "SingleSyllable"}
    /\ \E i \in 1..2 : vars["X"][1][i] = Variable("Y")
    /\ vars["Y"][1][1] = Variable("X")

\* ------------------------------------------------------------ syllable rules

\* The OrRules of the grammar.
OrRules == Range(RootsIter(syllable_roots)) \cup {vars[v] : v \in DOMAIN vars}

\* C26: an Uninitialized leaf occurs only as the head leaf of the first
\* alternative of an OrRule, and that alternative has no other leaf.
C26_PlaceholderPlacement ==
    \A rule \in OrRules :
       \A a \in 1..Len(rule) :
          \A l \in 1..Len(rule[a]) :
             ~Initialized(rule[a][l]) => (a = 1 /\ l = 1 /\ Len(rule[a]) = 1)

\* The first alternative of a rule was reset to the placeholder by a deletion
\* while a second alternative holds a leaf.
C26_Witness ==
    /\ \E rule \in OrRules :
          Len(rule) = 2 /\ ~Initialized(rule[1][1]) /\ Initialized(rule[2][1])
    /\ syllable_edit_mode = "Delete"

\* The names a Variable leaf may be given.
TypedNames == {"X", "Y", "InitialSyllable", "MiddleSyllable", "TerminalSyllable",
               "SingleSyllable"}

\* C27: the map of named variables has no key that is a root name; a root name
\* typed into a Variable leaf creates no entry, the name of an existing
\* variable leaves that variable's rule as it is, and any other name gets the
\* default rule.
C27_RootNamesNotShadowed ==
    /\ \A v \in DOMAIN vars : ~IsRootName(v)
    /\ \A name \in TypedNames :
          LET after == AddNewVar(vars, {name})
          IN /\ \A v \in DOMAIN after : ~IsRootName(v)
             /\ \A v \in DOMAIN vars : v \in DOMAIN after /\ after[v] = vars[v]
             /\ DOMAIN after = DOMAIN vars \cup ({name} \ Range(RootNames))
             /\ name \in DOMAIN after \ DOMAIN vars => after[name] = OrRuleDefault

\* A Variable leaf holds a root name, and a named variable has a rule of its
\* own.
C27_Witness ==
    /\ syllable_roots.single[1][1] = Variable("SingleSyllable")
    /\ \E v \in DOMAIN vars : Initialized(vars[v][1][1])

\* ---------------------------------------------------------------- input buffer

\* A grapheme, as its characters, is not empty and holds no whitespace.
WellFormed(grapheme) ==
    /\ grapheme # <<>>
    /\ \A i \in 1..Len(grapheme) : ~IsWhitespace(grapheme[i])

\* C28: whatever is typed, whitespace only separates graphemes: the input
\* handler runs to its end, every grapheme it adds is a non-empty string with
\* no whitespace, the buffer it leaves holds no whitespace, and the buffer
\* added on loss of focus is not empty.
C28_WellFormedGraphemes ==
    /\ ~aborted
    /\ \A k \in 1..Len(last_added) : WellFormed(last_added[k])
    /\ \A i \in 1..Len(input) : ~IsWhitespace(input[i])

\* ---------------------------------------------------------------- reordering

\* The list without the item, in the order it had.
RECURSIVE Others(_, _)
Others(list, item) ==
    IF list = <<>> THEN <<>>
    ELSE (IF Head(list) = item THEN <<>> ELSE <<Head(list)>>) \o Others(Tail(list), item)

\* C30: for every list of rules the editor reaches, every from_index < len and
\* to_index <= len, apply gives a list of the same length and elements, with
\* the other items in their order, the moved item last when to_index = len and
\* else immediately before the item that was at to_index; to_index equal to
\* from_index or from_index + 1 gives the list back.
C30_ReorderingIsMove ==
    \A from_index \in 0..(Len(grammar_rules) - 1), to_index \in 0..Len(grammar_rules) :
        LET list == grammar_rules
            moved_item == list[from_index + 1]
            applied == Apply(from_index, to_index, list)
            at == CHOOSE i \in 1..Len(applied) : applied[i] = moved_item
        IN /\ to_index \in {from_index, from_index + 1} => applied = list
           /\ Len(applied) = Len(list)
           /\ Range(applied) = Range(list)
           /\ Others(applied, moved_item) = Others(list, moved_item)
           /\ to_index = Len(list) => at = Len(applied)
           /\ to_index < Len(list) /\ to_index # from_index
                 => at < Len(applied) /\ applied[at + 1] = list[to_index + 1]

\* The first of four rules was dragged over the fourth and sits before it;
\* the list then was reordered again, the last rule to the front.
C30_Witness ==
    /\ moved_rule = [from_index |-> 3, to_index |-> 0, list |-> <<2, 3, 1, 4>>]
    /\ grammar_rules = <<4, 2, 3, 1>>

\* ---------------------------------------------------------------- weight sums

\* C29: a weight list of the editor has at most 100 entries, each in 0..100;
\* its sum stays below 2^16, so the 16-bit sum is the mathematical sum and
\* verify_weights answers true exactly when that sum is 100.
C29_SumsDoNotOverflow ==
    \A col \in 1..2 :
        LET weights == syllable_wgts[col]
        IN /\ Len(weights) <= 100
           /\ \A i \in 1..Len(weights) : weights[i] \in 0..100
           /\ SumOf(weights) < 65536
           /\ SumU16(weights) = SumOf(weights)
           /\ VerifyWeights(weights) <=> SumOf(weights) = 100

\* A hundred fields, all at 100% but the last, which was dragged to 50%: the
\* sum is 9950 and the weights are not accepted.
C29_Witness ==
    /\ Len(syllable_wgts[1]) = 100
    /\ syllable_wgts[1][100] = 50
    /\ SumOf(syllable_wgts[1]) = 9950
    /\ ~VerifyWeights(syllable_wgts[1])

====
